---- MODULE Spec2Model ----
(***************************************************************************)
(* Model of the RFC 6865 Reed-Solomon FEC framing elements of gstfecframe: *)
(* the decoder's source block table, its aging / pruning / ordering        *)
(* engine and the block processing (gstrsfecdec.c), together with the      *)
(* packet framing of the encoder (gstrsfecenc.c).                          *)
(***************************************************************************)
EXTENDS Integers, Sequences, FiniteSets, TLC

(***************************************************************************)
(* Widths and program constants                                            *)
(***************************************************************************)
\* guint is a 32 bit unsigned integer.  Every guint result that depends on
\* the wrap at 2^32 is masked with (total_range - 1) right away, and 2^24
\* divides 2^32, so such a result is computed modulo total_range directly.

\* guint const newer_range = (1u << 22)
newer_range == 4194304

\* guint const total_range = (1u << 24)
total_range == 16777216

\* #define FEC_PAYLOAD_ID_LENGTH 6 (the decoder writes the 6 as a literal)
FEC_PAYLOAD_ID_LENGTH == 6

(***************************************************************************)
(* Bounds of the model                                                     *)
(***************************************************************************)
\* k, the configured number of source symbols per block
BoundSourceSymbols == 2

\* the largest configured number of repair symbols per block (0 is the other)
BoundRepairSymbols == 2

\* the largest configured max-source-block-age of the decoder runs
BoundBlockAge == 2

\* the number of packets that arrive at the decoder in one run
BoundArrivals == 3

\* block numbers of the packets that arrive at the decoder
BlockNrs == {total_range - 1, 0, 1}

\* the number of ADUs handed to the encoder in one run
BoundEncArrivals == 3

\* the largest ADU the encoder accepts (gsize bufsize > 65535 is refused)
MaxAduSize == 65535

\* sizes of the ADUs handed to the encoder
AduSizes == { 1, MaxAduSize, MaxAduSize + 1 }

\* guint cur_source_block_nr is 32 bits wide: 8 bits above the 24 that the
\* payload ID carries
GuintHighRange == 256

(***************************************************************************)
(* Plain helpers                                                           *)
(***************************************************************************)
Max(a, b) == IF a >= b THEN a ELSE b

RECURSIVE Zeros(_)
Zeros(n) == IF n <= 0 THEN <<>> ELSE <<0>> \o Zeros(n - 1)

(***************************************************************************)
(* Payload-ID codec                                                        *)
(***************************************************************************)
\* encoder: the 6 bytes written by gst_rs_fec_enc_push_adu and by the repair
\* packet loop of gst_rs_fec_enc_process_source_block
fec_payload_id(source_block_nr, esi, nsrc) ==
    << (source_block_nr \div 65536) % 256,
       (source_block_nr \div 256) % 256,
       source_block_nr % 256,
       esi % 256,
       (nsrc \div 256) % 256,
       nsrc % 256 >>

\* a reader that takes the payload ID from the first 6 bytes
read_payload_id_from_start(pkt) ==
    [ source_block_nr |-> pkt[1] * 65536 + pkt[2] * 256 + pkt[3],
      esi             |-> pkt[4] ]

\* decoder: block number and ESI from the LAST 6 bytes of a source packet
gst_rs_fec_dec_source_packet_read_payload_id(pkt) ==
    LET off == Len(pkt) - FEC_PAYLOAD_ID_LENGTH
    IN  [ source_block_nr |-> pkt[off + 1] * 65536 + pkt[off + 2] * 256 + pkt[off + 3],
          esi             |-> pkt[Len(pkt) - 3 + 1] ]

\* decoder: block number and ESI from the FIRST 6 bytes of a repair packet
gst_rs_fec_dec_repair_packet_read_payload_id(pkt) ==
    [ source_block_nr |-> pkt[1] * 65536 + pkt[2] * 256 + pkt[3],
      esi             |-> pkt[4] ]

(***************************************************************************)
(* Erasure coding collaborator (OpenFEC), idealised.  A repair symbol is   *)
(* built column by column from the k source symbols; the byte at column j  *)
(* of repair symbol esi is the code byte <<esi, column j of the sources>>. *)
(* Decoding succeeds when at least k symbols are available.  It gives back *)
(* the erased source symbols when the available symbols belong to one code *)
(* word (the source symbols handed in are the ones the repair symbols were *)
(* built from), and garbage otherwise.                                     *)
(***************************************************************************)
of_build_repair_symbol(encoding_symbol_table, nsrc, symlen, esi) ==
    [ j \in 1..symlen |-> << esi, [ i \in 1..nsrc |-> encoding_symbol_table[i][j] ] >> ]

\* number of non NULL entries of a symbol table (a function on 0..n-1, NULL
\* being the empty sequence)
NumAvailable(tab) == Cardinality({ e \in DOMAIN tab : Len(tab[e]) > 0 })

\* of_set_available_symbols + of_finish_decoding: OK iff decodable
of_finish_decoding(received, nsrc) ==
    IF NumAvailable(received) >= nsrc THEN "OF_STATUS_OK" ELSE "OF_STATUS_FAILURE"

\* of_get_source_symbols_tab: the k source symbols, received or rebuilt
of_get_source_symbols_tab(received, nsrc) ==
    [ e \in 0..(nsrc - 1) |->
        IF Len(received[e]) > 0
        THEN received[e]
        ELSE LET reps == { q \in DOMAIN received : q >= nsrc /\ Len(received[q]) > 0 }
                 q    == CHOOSE x \in reps : TRUE
                 srcs == { i \in 0..(nsrc - 1) : Len(received[i]) > 0 }
             IN  [ j \in 1..Len(received[q]) |->
                     IF \A i \in srcs : /\ Len(received[i]) = Len(received[q])
                                        /\ received[i][j] = received[q][j][2][i + 1]
                     THEN received[q][j][2][e + 1]
                     ELSE 255 ] ]

(***************************************************************************)
(* Encoder framing of one source block (gstrsfecenc.c)                     *)
(***************************************************************************)
\* the ADUs handed to the encoder for block b: ADU e has length 2 for even
\* e and length 1 for odd e, so that padding is needed inside every block
AduOf(b, e) ==
    IF e % 2 = 0 THEN << 10 + (b % 4), 20 + e >> ELSE << b % 4 >>

\* FEC source packet = ADU ++ payload ID (suffix)
EncSourcePacket(b, e, nsrc) == AduOf(b, e) \o fec_payload_id(b, e, nsrc)

\* cur_max_adu_length after the k ADUs of block b were inserted
RECURSIVE EncMaxAduLength(_, _)
EncMaxAduLength(b, cnt) ==
    IF cnt = 0 THEN 0 ELSE Max(Len(AduOf(b, cnt - 1)), EncMaxAduLength(b, cnt - 1))

\* ADUI = flow id, 16 bit big endian ADU length, ADU, zero padding
EncAdui(adu, cur_max_adu_length) ==
    << 0, (Len(adu) \div 256) % 256, Len(adu) % 256 >> \o adu
        \o Zeros(cur_max_adu_length - Len(adu))

\* FEC repair packet i of block b = payload ID (prefix) ++ repair symbol
EncRepairPacket(b, i, nsrc) ==
    LET cur_max == EncMaxAduLength(b, nsrc)
        encoding_symbol_length_enc == 1 + 2 + cur_max
        tab == [ s \in 1..nsrc |-> EncAdui(AduOf(b, s - 1), cur_max) ]
        esi == i + nsrc
    IN  fec_payload_id(b, esi, nsrc)
            \o of_build_repair_symbol(tab, nsrc, encoding_symbol_length_enc, esi)

\* the packet with encoding symbol index esi of block b, as the encoder
\* emits it on its source pad (esi < k) or on its repair pad
EncPacket(b, esi, nsrc) ==
    IF esi < nsrc THEN EncSourcePacket(b, esi, nsrc)
                  ELSE EncRepairPacket(b, esi - nsrc, nsrc)

(***************************************************************************)
(* Aging: circular comparison of 24 bit source block numbers               *)
(***************************************************************************)
gst_rs_fec_dec_check_if_source_block_in_range(block_nr, start, end) ==
    IF start < end
    THEN (block_nr >= start) /\ (block_nr <= end)
    ELSE IF start > end
         THEN (block_nr <= end) \/ (block_nr >= start)
         ELSE block_nr = start

\* the newer window one block number too long
is_source_block_nr_newer_off_by_one(candidate_block_nr, reference_block_nr) ==
    gst_rs_fec_dec_check_if_source_block_in_range(
        candidate_block_nr, reference_block_nr + 1,
        (reference_block_nr + newer_range) % total_range)

gst_rs_fec_dec_is_source_block_nr_newer(candidate_block_nr, reference_block_nr) ==
    LET start == reference_block_nr + 1
        end   == (reference_block_nr + (newer_range - 1)) % total_range
    IN  gst_rs_fec_dec_check_if_source_block_in_range(candidate_block_nr, start, end)

gst_rs_fec_dec_is_source_block_nr_recent_enough(candidate_block_nr, reference_block_nr, max_age) ==
    LET start == (reference_block_nr + total_range
                     - ((max_age - 1) % total_range)) % total_range
        end   == (reference_block_nr + (newer_range - 1)) % total_range
    IN  gst_rs_fec_dec_check_if_source_block_in_range(candidate_block_nr, start, end)

\* the comparison with its two results exchanged
compare_source_blocks_swapped(first_block_nr, second_block_nr) ==
    IF first_block_nr < second_block_nr THEN 1
    ELSE IF first_block_nr > second_block_nr THEN -1 ELSE 0

\* comparison function handed to g_slist_sort: -1, 0 or 1
gst_rs_fec_dec_compare_source_blocks(first_block_nr, second_block_nr) ==
    IF first_block_nr < second_block_nr THEN -1
    ELSE IF first_block_nr > second_block_nr THEN 1 ELSE 0

\* g_slist_sort(list, compare): insertion of x into a sorted sequence
RECURSIVE SortedInsert(_, _)
SortedInsert(x, s) ==
    IF s = <<>> THEN << x >>
    ELSE IF gst_rs_fec_dec_compare_source_blocks(x, Head(s)) <= 0
         THEN << x >> \o s
         ELSE << Head(s) >> \o SortedInsert(x, Tail(s))

\* g_slist_sort over the block numbers of the pruned / drained blocks
RECURSIVE g_slist_sort(_)
g_slist_sort(S) ==
    IF S = {} THEN <<>>
    ELSE LET x == CHOOSE y \in S : TRUE
         IN  SortedInsert(x, g_slist_sort(S \ {x}))

(***************************************************************************)
(* Decoder state (struct _GstRSFECDec) and history variables               *)
(***************************************************************************)
VARIABLES
    num_source_symbols,     \* k
    num_repair_symbols,     \* r
    num_encoding_symbols,   \* n = k + r
    max_source_block_age,
    sort_output,
    encoding_symbol_length, \* length of the allocated symbol memory blocks
    source_block_table,     \* block number -> GstRSFECDecSourceBlock
    first_pruning,
    most_recent_block_nr,
    segment_started,
    stream_started,
    fecsource_eos,
    fecrepair_eos,
    pushed,                 \* history: gst_pad_push calls on srcpad this session
    eos_pushed,             \* history: number of EOS events pushed downstream
    seen_block_nrs,         \* history: block numbers that arrived this session
    accepted_ids,           \* history: (block, ESI) recorded this session
    last_op,                \* history: what the last handler did
    arrivals,               \* history: number of packets that arrived so far
    processed_block_nrs,    \* history: blocks handed to block processing this session
    of_fault,               \* the OpenFEC call of block processing that fails ("none": none)
    of_release_fault,       \* the status of a failing of_release_codec_instance ("none": none)
    dec_state,              \* decoder: element state, "NULL", "READY" or "PAUSED"
    allocated_encoding_symbol_table, \* decoder: TRUE when the table is not NULL
    openfec_session,        \* encoder: TRUE when the session is not NULL
    rs_mutex,               \* decoder: the thread that holds rs_fec_dec->mutex, or "none"
    thread_op,              \* the handler each thread is running, or "none"
    last_set,               \* history: the last set_property call and its message
    age_in,                 \* inputs of the aging functions (aging runs only)
    age_out,                \* results of the aging functions (aging runs only)
    cur_source_block_nr,    \* encoder: guint, [hi: bits 24..31, lo: bits 0..23]
    cur_num_adus,           \* encoder: ADUs collected in adu_table
    cur_max_adu_length,     \* encoder
    adu_table,              \* encoder: ESI -> ADU or NULL
    eos_received,           \* encoder
    enc_state,              \* encoder: element state, "READY" or "PAUSED"
    enc_pushed,             \* history: gst_pad_push calls of the encoder
    enc_collected,          \* history: ADUs inserted since the last block end or flush
    enc_last_op,            \* history: what the last encoder handler did
    enc_arrivals,           \* history: ADUs handed to the encoder so far
    codec_in,               \* inputs of the payload-ID codec (codec runs only)
    codec_out               \* results of the payload-ID codec (codec runs only)

decVars == << num_source_symbols, num_repair_symbols, num_encoding_symbols,
              max_source_block_age, sort_output, encoding_symbol_length,
              source_block_table, first_pruning, most_recent_block_nr,
              segment_started, stream_started, fecsource_eos, fecrepair_eos,
              pushed, eos_pushed, seen_block_nrs, accepted_ids, last_op,
              arrivals, processed_block_nrs >>

ageVars == << age_in, age_out >>

encVars == << cur_source_block_nr, cur_num_adus, cur_max_adu_length, adu_table,
              eos_received, enc_state, enc_pushed, enc_collected, enc_last_op,
              enc_arrivals >>

codecVars == << codec_in, codec_out >>

\* the element's surroundings: collaborator faults, element state, threads
envVars == << of_fault, of_release_fault, dec_state, allocated_encoding_symbol_table, openfec_session,
              rs_mutex, thread_op, last_set >>

\* what the handlers of the decoder leave alone
auxVars == << ageVars, encVars, codecVars, envVars >>

vars == << decVars, auxVars >>

\* an entry of an output_adu_table: NULL or a GstBuffer holding ADU bytes
NullAdu == [ present |-> FALSE, data |-> <<>> ]
AduBuffer(bytes) == [ present |-> TRUE, data |-> bytes ]

\* g_slice_alloc0 of a source block and of its output_adu_table
gst_rs_fec_dec_create_source_block(block_nr, nsrc) ==
    [ block_nr           |-> block_nr,
      packet_mask        |-> {},
      source_packets     |-> <<>>,
      repair_packets     |-> <<>>,
      num_source_packets |-> 0,
      num_repair_packets |-> 0,
      output_adu_table   |-> [ e \in 0..(nsrc - 1) |-> NullAdu ],
      is_complete        |-> FALSE ]

\* the threshold test passed one packet early
can_source_block_be_processed_early(blk, nsrc) ==
    (blk.num_source_packets + blk.num_repair_packets) >= nsrc - 1

\* the threshold test on the source packets alone
can_source_block_be_processed_source_only(blk, nsrc) ==
    blk.num_source_packets >= nsrc

\* the threshold test with > in place of >=
can_source_block_be_processed_strict(blk, nsrc) ==
    (blk.num_source_packets + blk.num_repair_packets) > nsrc

gst_rs_fec_dec_can_source_block_be_processed(blk, nsrc) ==
    (blk.num_source_packets + blk.num_repair_packets) >= nsrc

\* removal of a set of keys from the hash table
TableRemove(tbl, keys) == [ b \in (DOMAIN tbl) \ keys |-> tbl[b] ]

\* insertion / replacement of one entry of the hash table
TablePut(tbl, b, blk) == [ x \in (DOMAIN tbl) \cup {b} |-> IF x = b THEN blk ELSE tbl[x] ]

(***************************************************************************)
(* Downstream: gst_pad_push on srcpad.  ds.hist is the history of calls,   *)
(* ds.calls the number of calls made by the running handler; the call      *)
(* number refuse_at of the handler (if any) is refused by downstream.      *)
(***************************************************************************)
gst_rs_fec_dec_push_adu(ds, block_nr, esi, bytes, refuse_at) ==
    LET ret == IF ds.calls + 1 = refuse_at THEN "GST_FLOW_FLUSHING" ELSE "GST_FLOW_OK"
    IN  [ hist  |-> Append(ds.hist, [ block_nr |-> block_nr, esi |-> esi,
                                      adu |-> bytes, ret |-> ret ]),
          calls |-> ds.calls + 1,
          ret   |-> ret ]

\* the ESI loop of gst_rs_fec_dec_push_source_block, from index esi on
RECURSIVE PushSourceBlockLoop(_, _, _, _, _, _)
PushSourceBlockLoop(blk, esi, nsrc, ds, push_adus, refuse_at) ==
    IF esi >= nsrc THEN ds
    ELSE LET adu == blk.output_adu_table[esi]
         IN  IF ~adu.present
             THEN PushSourceBlockLoop(blk, esi + 1, nsrc, ds, push_adus, refuse_at)
             ELSE IF push_adus
                  THEN LET ds1 == gst_rs_fec_dec_push_adu(ds, blk.block_nr, esi, adu.data, refuse_at)
                       IN  PushSourceBlockLoop(blk, esi + 1, nsrc, ds1,
                                               ds1.ret = "GST_FLOW_OK", refuse_at)
                  ELSE PushSourceBlockLoop(blk, esi + 1, nsrc, ds, FALSE, refuse_at)

\* pushes the ADUs of one block in ESI order; ret is the result of the last
\* push made (GST_FLOW_OK when none was made)
gst_rs_fec_dec_push_source_block(blk, nsrc, ds, refuse_at) ==
    PushSourceBlockLoop(blk, 0, nsrc, [ ds EXCEPT !.ret = "GST_FLOW_OK" ], TRUE, refuse_at)

\* a push loop that goes on with the next block after a refusal
RECURSIVE PushBlockList_keeps_going(_, _, _, _, _)
PushBlockList_keeps_going(list, tbl, nsrc, ds, refuse_at) ==
    IF list = <<>> THEN ds
    ELSE PushBlockList_keeps_going(Tail(list), tbl, nsrc,
             gst_rs_fec_dec_push_source_block(tbl[Head(list)], nsrc, ds, refuse_at), refuse_at)

\* the push loop over the sorted list of pruned / drained blocks: a block is
\* pushed only while ret is GST_FLOW_OK (every block is destroyed anyway)
RECURSIVE PushBlockList(_, _, _, _, _)
PushBlockList(list, tbl, nsrc, ds, refuse_at) ==
    IF list = <<>> THEN ds
    ELSE IF ds.ret = "GST_FLOW_OK"
         THEN PushBlockList(Tail(list), tbl, nsrc,
                            gst_rs_fec_dec_push_source_block(tbl[Head(list)], nsrc, ds, refuse_at),
                            refuse_at)
         ELSE ds

(***************************************************************************)
(* Block processing: gst_rs_fec_dec_process_source_block                   *)
(***************************************************************************)
\* the source symbol (ADUI) rebuilt from a received FEC source packet
DecAdui(adu_bytes, adu_length, symlen) ==
    << 0, (adu_length \div 256) % 256, adu_length % 256 >>
        \o SubSeq(adu_bytes, 1, adu_length)
        \o Zeros(symlen - (adu_length + 3))

\* received_encoding_symbol_table after the two loops over the packet lists
ReceivedSymbolTable(blk, nenc, symlen) ==
    [ e \in 0..(nenc - 1) |->
        IF \E i \in 1..Len(blk.source_packets) :
               gst_rs_fec_dec_source_packet_read_payload_id(blk.source_packets[i]).esi = e
        THEN LET i == CHOOSE i \in 1..Len(blk.source_packets) :
                        gst_rs_fec_dec_source_packet_read_payload_id(blk.source_packets[i]).esi = e
                 p == blk.source_packets[i]
             IN  DecAdui(blk.output_adu_table[e].data, Len(p) - FEC_PAYLOAD_ID_LENGTH, symlen)
        ELSE IF \E i \in 1..Len(blk.repair_packets) :
                    gst_rs_fec_dec_repair_packet_read_payload_id(blk.repair_packets[i]).esi = e
        THEN LET i == CHOOSE i \in 1..Len(blk.repair_packets) :
                        gst_rs_fec_dec_repair_packet_read_payload_id(blk.repair_packets[i]).esi = e
             IN  SubSeq(blk.repair_packets[i], 7, Len(blk.repair_packets[i]))
        ELSE <<>> ]

\* the g_assert calls of the two packet loops
ProcessAssertionsHold(blk, nsrc, nrep, symlen) ==
    /\ \A i \in 1..Len(blk.source_packets) :
          /\ gst_rs_fec_dec_source_packet_read_payload_id(blk.source_packets[i]).esi < nsrc
          /\ (Len(blk.source_packets[i]) - FEC_PAYLOAD_ID_LENGTH) + 3 <= symlen
    /\ Len(blk.repair_packets) <= nrep
    /\ \A i \in 1..Len(blk.repair_packets) :
          LET e == gst_rs_fec_dec_repair_packet_read_payload_id(blk.repair_packets[i]).esi
          IN  e >= nsrc /\ e < nsrc + nrep

\* the ADU bytes taken one byte too early in the symbol
RecoveredAdu_shifted(sym) ==
    [ adu_flow |-> sym[1],
      bytes    |-> SubSeq(sym, 3, 2 + (sym[2] * 256 + sym[3])) ]

\* the ADU held by a recovered source symbol: flow id, length, bytes
RecoveredAdu(sym) ==
    [ adu_flow |-> sym[1],
      bytes    |-> SubSeq(sym, 4, 3 + (sym[2] * 256 + sym[3])) ]

\* the output loop over ESI 0..k-1 ("Output all received and recovered
\* ADUs"); st = [blk, ds, ret, recovered_adus]
RECURSIVE RecoverLoop(_, _, _, _, _, _, _)
RecoverLoop(st, esi, nsrc, received, recovered, sorting, refuse_at) ==
    IF esi >= nsrc THEN st
    ELSE IF Len(received[esi]) > 0
         THEN RecoverLoop(st, esi + 1, nsrc, received, recovered, sorting, refuse_at)
         ELSE LET rec == RecoveredAdu(recovered[esi])
              IN  IF rec.adu_flow # 0
                  THEN RecoverLoop(st, esi + 1, nsrc, received, recovered, sorting, refuse_at)
                  ELSE LET st0 == [ st EXCEPT !.recovered_adus =
                                        [ x \in (DOMAIN @) \cup {esi} |->
                                             IF x = esi THEN rec.bytes ELSE @[x] ] ]
                       IN  IF sorting
                           THEN RecoverLoop(
                                   [ st0 EXCEPT !.blk.output_adu_table[esi] = AduBuffer(rec.bytes) ],
                                   esi + 1, nsrc, received, recovered, sorting, refuse_at)
                           ELSE LET ds1 == gst_rs_fec_dec_push_adu(st.ds, st.blk.block_nr, esi,
                                                                   rec.bytes, refuse_at)
                                    st1 == [ st0 EXCEPT !.blk.output_adu_table[esi] = NullAdu,
                                                        !.ds = ds1, !.ret = ds1.ret ]
                                IN  IF ds1.ret # "GST_FLOW_OK"
                                    THEN st1
                                    ELSE RecoverLoop(st1, esi + 1, nsrc, received, recovered,
                                                     sorting, refuse_at)

\* result: the block afterwards, the downstream history, the return value,
\* whether the collaborator was invoked, whether a g_assert failed, the
\* recovered ADUs by ESI and the (possibly changed) symbol block length
gst_rs_fec_dec_process_source_block(blk, nsrc, nrep, sorting, symlen_prev, ds, refuse_at) ==
    IF blk.num_repair_packets = 0
    THEN [ blk |-> [ blk EXCEPT !.is_complete = TRUE ],
           ds |-> ds, ret |-> "GST_FLOW_OK", collaborator |-> FALSE,
           assert_failed |-> (blk.num_source_packets # nsrc),
           recovered_adus |-> << >>, of_status |-> "OF_STATUS_OK",
           encoding_symbol_length |-> symlen_prev ]
    ELSE LET symlen   == Len(Head(blk.repair_packets)) - FEC_PAYLOAD_ID_LENGTH
             asserts  == ProcessAssertionsHold(blk, nsrc, nrep, symlen)
             received == ReceivedSymbolTable(blk, nsrc + nrep, symlen)
             \* a received ADU was pushed at reception when sorting is off
             blk1     == IF sorting THEN blk
                         ELSE [ blk EXCEPT !.output_adu_table =
                                   [ e \in DOMAIN @ |->
                                       IF Len(received[e]) > 0 THEN NullAdu ELSE @[e] ] ]
             \* of_set_available_symbols + of_finish_decoding, or the status
             \* of the fault of this run
             status   == IF of_fault = "none" THEN of_finish_decoding(received, nsrc)
                         ELSE of_fault
             \* cleanup: when of_release_codec_instance fails, ret = FALSE,
             \* which is 0, the value of GST_FLOW_OK
             released(ret) == IF of_release_fault = "none" THEN ret ELSE "GST_FLOW_OK"
             \* the session is created before the packet loops run
         IN  IF ~asserts
             THEN [ blk |-> blk, ds |-> ds, ret |-> "GST_FLOW_ERROR", collaborator |-> TRUE,
                    assert_failed |-> TRUE, recovered_adus |-> << >>,
                    of_status |-> "OF_STATUS_OK", encoding_symbol_length |-> symlen ]
             \* ret = GST_FLOW_ERROR; goto cleanup: is_complete is not set
             ELSE IF status # "OF_STATUS_OK"
             THEN [ blk |-> blk1, ds |-> ds, ret |-> released("GST_FLOW_ERROR"),
                    collaborator |-> TRUE,
                    assert_failed |-> FALSE, recovered_adus |-> << >>,
                    of_status |-> status, encoding_symbol_length |-> symlen ]
             ELSE LET recovered == of_get_source_symbols_tab(received, nsrc)
                      st  == RecoverLoop([ blk |-> blk1, ds |-> ds, ret |-> "GST_FLOW_OK",
                                           recovered_adus |-> << >> ],
                                         0, nsrc, received, recovered, sorting, refuse_at)
                  IN  [ blk |-> IF st.ret = "GST_FLOW_OK"
                                THEN [ st.blk EXCEPT !.is_complete = TRUE ] ELSE st.blk,
                        ds |-> st.ds, ret |-> released(st.ret), collaborator |-> TRUE,
                        assert_failed |-> FALSE, recovered_adus |-> st.recovered_adus,
                        of_status |-> "OF_STATUS_OK", encoding_symbol_length |-> symlen ]

(***************************************************************************)
(* Pruning and draining                                                    *)
(***************************************************************************)
\* a scan that keeps a block one block number longer than max_age allows
PrunedBlockNrs_one_more(tbl, reference_block_nr, max_age) ==
    { b \in DOMAIN tbl :
        ~gst_rs_fec_dec_is_source_block_nr_recent_enough(b, reference_block_nr, max_age + 1) }

\* the entries the scan of the hash table removes, relative to reference
PrunedBlockNrs(tbl, reference_block_nr, max_age) ==
    { b \in DOMAIN tbl :
        ~gst_rs_fec_dec_is_source_block_nr_recent_enough(b, reference_block_nr, max_age) }

\* every block prepended to the pruning list whatever the sort mode
PruneList_always(old, sorting) == g_slist_sort(old)

\* the pruning list: a too old block is prepended to it when sorting is
\* enabled and destroyed right away otherwise; the list is then sorted
PruneList(old, sorting) == IF sorting THEN g_slist_sort(old) ELSE <<>>

\* a pruning step that takes every inserted block number as the reference
prune_always_moves_reference(tbl, source_block_nr, reference_block_nr, first, max_age, nsrc, sorting, ds, refuse_at) ==
    [ tbl |-> tbl, most_recent_block_nr |-> source_block_nr, first_pruning |-> FALSE,
      ds |-> ds, ret |-> "GST_FLOW_OK", pruned |-> <<>>, evicted |-> {} ]

\* result: table, reference, first_pruning flag, downstream history, return
\* value, the list of pruned blocks in the order they are handled and the
\* block numbers removed from the table
gst_rs_fec_dec_prune_source_block_table(tbl, source_block_nr, reference_block_nr, first, max_age, nsrc, sorting, ds, refuse_at) ==
    IF first
    THEN [ tbl |-> tbl, most_recent_block_nr |-> source_block_nr, first_pruning |-> FALSE,
           ds |-> ds, ret |-> "GST_FLOW_OK", pruned |-> <<>>, evicted |-> {} ]
    ELSE IF source_block_nr # reference_block_nr
            /\ gst_rs_fec_dec_is_source_block_nr_newer(source_block_nr, reference_block_nr)
         THEN LET old  == PrunedBlockNrs(tbl, source_block_nr, max_age)
                  list == PruneList(old, sorting)
                  ds1  == PushBlockList(list, tbl, nsrc,
                                        [ ds EXCEPT !.ret = "GST_FLOW_OK" ], refuse_at)
              IN  [ tbl |-> TableRemove(tbl, old),
                    most_recent_block_nr |-> source_block_nr, first_pruning |-> FALSE,
                    ds |-> ds1, ret |-> ds1.ret, pruned |-> list, evicted |-> old ]
         ELSE [ tbl |-> tbl, most_recent_block_nr |-> reference_block_nr,
                first_pruning |-> FALSE, ds |-> ds, ret |-> "GST_FLOW_OK", pruned |-> <<>>,
                evicted |-> {} ]

\* a drain that destroys the blocks without pushing them
drain_without_push(tbl, nsrc, ds, refuse_at) ==
    [ ds |-> [ ds EXCEPT !.ret = "GST_FLOW_OK" ], ret |-> "GST_FLOW_OK", drained |-> <<>> ]

\* result: downstream history, return value, the drained list; the table is
\* empty afterwards
gst_rs_fec_dec_drain_source_block_table(tbl, nsrc, ds, refuse_at) ==
    LET list == g_slist_sort(DOMAIN tbl)
        ds1  == PushBlockList(list, tbl, nsrc, [ ds EXCEPT !.ret = "GST_FLOW_OK" ], refuse_at)
    IN  [ ds |-> ds1, ret |-> ds1.ret, drained |-> list ]

(***************************************************************************)
(* Packet insertion: gst_rs_fec_dec_insert_fec_packet.  The result holds   *)
(* the new table, reference, flags and downstream history, and a report    *)
(* of the path taken.                                                      *)
(***************************************************************************)
InsertReport(outcome, id, is_source_packet, ret) ==
    [ op |-> "insert", outcome |-> outcome, block_nr |-> id.source_block_nr,
      esi |-> id.esi, is_source_packet |-> is_source_packet, ret |-> ret,
      processed |-> FALSE, collaborator |-> FALSE, assert_failed |-> FALSE,
      block_after_processing |-> gst_rs_fec_dec_create_source_block(id.source_block_nr, 0),
      recovered_adus |-> << >>, batch |-> <<>>, pruning_ran |-> FALSE,
      num_source_packets |-> 0, num_repair_packets |-> 0, pushes |-> <<>>,
      pushes_before_pruning |-> 0, evicted |-> {}, of_status |-> "OF_STATUS_OK",
      out_of_range_index |-> FALSE, process_ret |-> "GST_FLOW_OK" ]

\* a received ADU pushed right away whatever the sort mode
PushAtReception_always(is_source_packet, sorting) == is_source_packet

\* "If no sorting is needed, then we can output the ADU right away"
PushAtReception(is_source_packet, sorting) == is_source_packet /\ ~sorting

gst_rs_fec_dec_insert_fec_packet(fec_packet, is_source_packet, refuse_at) ==
    LET id   == IF is_source_packet
                THEN gst_rs_fec_dec_source_packet_read_payload_id(fec_packet)
                ELSE gst_rs_fec_dec_repair_packet_read_payload_id(fec_packet)
        nr   == id.source_block_nr
        esi  == id.esi
        \* fetch the block, create it when it is missing
        tbl1 == IF nr \in DOMAIN source_block_table
                THEN source_block_table
                ELSE TablePut(source_block_table, nr,
                              gst_rs_fec_dec_create_source_block(nr, num_source_symbols))
        ds0  == [ hist |-> pushed, calls |-> 0, ret |-> "GST_FLOW_OK" ]
        same == [ tbl |-> tbl1, most_recent_block_nr |-> most_recent_block_nr,
                  first_pruning |-> first_pruning, hist |-> pushed,
                  encoding_symbol_length |-> encoding_symbol_length,
                  segment_started |-> segment_started, stream_started |-> stream_started ]
    IN
    IF ~gst_rs_fec_dec_is_source_block_nr_recent_enough(nr, most_recent_block_nr,
                                                        max_source_block_age)
    THEN [ same EXCEPT !.tbl = tbl1 ] @@
         [ report |-> InsertReport("too_old", id, is_source_packet, "GST_FLOW_OK") ]
    ELSE IF tbl1[nr].is_complete
    THEN same @@ [ report |-> InsertReport("complete", id, is_source_packet, "GST_FLOW_OK") ]
    ELSE IF esi \in tbl1[nr].packet_mask
    THEN same @@ [ report |-> InsertReport("duplicate", id, is_source_packet, "GST_FLOW_OK") ]
    ELSE
    LET blk0 == [ tbl1[nr] EXCEPT !.packet_mask = @ \cup {esi} ]
        adu  == SubSeq(fec_packet, 1, Len(fec_packet) - FEC_PAYLOAD_ID_LENGTH)
        blk1 == IF is_source_packet
                THEN [ blk0 EXCEPT !.source_packets = << fec_packet >> \o @,
                                   !.num_source_packets = @ + 1,
                                   !.output_adu_table =
                                       IF esi \in DOMAIN @
                                       THEN [ @ EXCEPT ![esi] = AduBuffer(adu) ] ELSE @ ]
                ELSE [ blk0 EXCEPT !.repair_packets = << fec_packet >> \o @,
                                   !.num_repair_packets = @ + 1 ]
        \* sorting disabled: the received ADU is pushed right away
        ds1  == IF PushAtReception(is_source_packet, sort_output)
                THEN gst_rs_fec_dec_push_adu(ds0, nr, esi, adu, refuse_at)
                ELSE ds0
        rep0 == [ InsertReport("accepted", id, is_source_packet, ds1.ret) EXCEPT
                      !.num_source_packets = blk1.num_source_packets,
                      !.num_repair_packets = blk1.num_repair_packets,
                      \* output_adu_table[esi] = adu, whatever esi is
                      !.out_of_range_index =
                          is_source_packet /\ esi \notin DOMAIN blk0.output_adu_table,
                      !.pushes = SubSeq(ds1.hist, Len(pushed) + 1, Len(ds1.hist)),
                      !.pushes_before_pruning = Len(ds1.hist) - Len(pushed) ]
    IN
    IF ds1.ret # "GST_FLOW_OK"
    THEN [ same EXCEPT !.tbl = TablePut(tbl1, nr, blk1), !.hist = ds1.hist ] @@
         [ report |-> rep0 ]
    ELSE
    LET can  == gst_rs_fec_dec_can_source_block_be_processed(blk1, num_source_symbols)
        pr   == gst_rs_fec_dec_process_source_block(blk1, num_source_symbols, num_repair_symbols,
                                                    sort_output, encoding_symbol_length,
                                                    ds1, refuse_at)
        blk2 == IF can THEN pr.blk ELSE blk1
        ds2  == IF can THEN pr.ds ELSE ds1
        ret2 == IF can THEN pr.ret ELSE "GST_FLOW_OK"
        \* sorting disabled: the processed block is destroyed and removed
        tbl2 == IF can /\ ~sort_output
                THEN TableRemove(tbl1, {nr})
                ELSE TablePut(tbl1, nr, blk2)
        rep1 == IF can
                THEN [ rep0 EXCEPT !.processed = TRUE, !.collaborator = pr.collaborator,
                                   !.assert_failed = pr.assert_failed,
                                   !.of_status = pr.of_status,
                                   !.process_ret = pr.ret,
                                   !.block_after_processing = pr.blk,
                                   !.recovered_adus = pr.recovered_adus, !.ret = ret2,
                                   !.pushes = SubSeq(ds2.hist, Len(pushed) + 1, Len(ds2.hist)),
                                   !.pushes_before_pruning = Len(ds2.hist) - Len(pushed) ]
                ELSE rep0
        esl2 == IF can THEN pr.encoding_symbol_length ELSE encoding_symbol_length
    IN
    IF ret2 # "GST_FLOW_OK"
    THEN [ same EXCEPT !.tbl = tbl2, !.hist = ds2.hist, !.encoding_symbol_length = esl2 ] @@
         [ report |-> rep1 ]
    ELSE
    LET pn == gst_rs_fec_dec_prune_source_block_table(tbl2, nr, most_recent_block_nr,
                  first_pruning, max_source_block_age, num_source_symbols, sort_output,
                  ds2, refuse_at)
    IN  [ tbl |-> pn.tbl, most_recent_block_nr |-> pn.most_recent_block_nr,
          first_pruning |-> pn.first_pruning, hist |-> pn.ds.hist,
          encoding_symbol_length |-> esl2,
          \* gst_rs_fec_dec_push_source_block sends stream-start and segment
          segment_started |-> segment_started \/ (pn.pruned # <<>>),
          stream_started |-> stream_started \/ (pn.pruned # <<>>),
          report |-> [ rep1 EXCEPT !.ret = pn.ret, !.batch = pn.pruned,
                                   !.pruning_ran = TRUE, !.evicted = pn.evicted,
                                   !.pushes_before_pruning = Len(ds2.hist) - Len(pushed),
                                   !.pushes = SubSeq(pn.ds.hist, Len(pushed) + 1,
                                                     Len(pn.ds.hist)) ] ]

(***************************************************************************)
(* Initial state: gst_rs_fec_dec_init, the properties set before the       *)
(* session starts, NULL->READY->PAUSED                                     *)
(***************************************************************************)
NoId == [ source_block_nr |-> 0, esi |-> 0 ]

IdleReport(op) == [ InsertReport("none", NoId, FALSE, "GST_FLOW_OK") EXCEPT !.op = op ]

\* the aging functions are idle in decoder runs
AgeIdle ==
    /\ age_in = [ candidate_block_nr |-> 0, reference_block_nr |-> 0, max_age |-> 1 ]
    /\ age_out = [ called |-> "none", result |-> FALSE ]

DecInit(nsrcs, nreps, ages, sortings) ==
    /\ num_source_symbols \in nsrcs
    /\ num_repair_symbols \in nreps
    /\ num_encoding_symbols = num_source_symbols + num_repair_symbols
    /\ max_source_block_age \in ages
    /\ sort_output \in sortings
    /\ encoding_symbol_length = 0
    /\ source_block_table = << >>
    /\ first_pruning = TRUE
    /\ most_recent_block_nr = 0
    /\ segment_started = FALSE
    /\ stream_started = FALSE
    /\ fecsource_eos = FALSE
    /\ fecrepair_eos = FALSE
    /\ pushed = <<>>
    /\ eos_pushed = 0
    /\ seen_block_nrs = {}
    /\ accepted_ids = {}
    /\ last_op = IdleReport("init")
    /\ arrivals = 0
    /\ processed_block_nrs = <<>>

\* NULL in the encoder's adu_table; an ADU is known by its arrival number
\* and its size in bytes
EncNull == [ id |-> 0, size |-> 0 ]

EncReport(op) ==
    [ op |-> op, ret |-> "GST_FLOW_OK", adu |-> EncNull, processed |-> FALSE,
      failure |-> "none", pushes |-> <<>>, adus_before |-> 0 ]

\* the encoder after construction with the given value of the block counter
EncInit(block_nrs) ==
    /\ cur_source_block_nr \in block_nrs
    /\ cur_num_adus = 0
    /\ cur_max_adu_length = 0
    /\ adu_table = [ e \in 0..(num_source_symbols - 1) |-> EncNull ]
    /\ eos_received = FALSE
    /\ enc_state = "PAUSED"
    /\ enc_pushed = <<>>
    /\ enc_collected = 0
    /\ enc_last_op = EncReport("init")
    /\ enc_arrivals = 0

\* the encoder is idle in decoder runs
EncIdle == EncInit({ [ hi |-> 0, lo |-> 0 ] })

\* the payload-ID codec is idle in decoder runs
CodecIdle ==
    /\ codec_in = [ source_block_nr |-> 0, esi |-> 0, nsrc |-> 1, body |-> <<>> ]
    /\ codec_out = [ called |-> "none", packet |-> <<>>, id |-> NoId ]

\* the threads that call into the decoder: the streaming threads of the two
\* sink pads and the application thread
Threads == { "fecsource", "fecrepair", "application" }

\* no set_property call was made on the element named
NoSet(element) ==
    [ element |-> element, prop |-> "none", value |-> 0, message |-> "none" ]

\* a session that runs: both elements PAUSED, no OpenFEC fault, no handler
\* in progress
EnvIdle ==
    /\ last_set = NoSet("decoder")
    /\ of_fault = "none"
    /\ of_release_fault = "none"
    /\ dec_state = "PAUSED"
    /\ allocated_encoding_symbol_table = TRUE
    /\ openfec_session = TRUE
    /\ rs_mutex = "none"
    /\ thread_op = [ t \in Threads |-> "none" ]

Init ==
    /\ DecInit({BoundSourceSymbols}, {0, BoundRepairSymbols}, 1..BoundBlockAge, BOOLEAN)
    /\ AgeIdle
    /\ EncIdle
    /\ CodecIdle
    /\ EnvIdle

(***************************************************************************)
(* Handlers of the decoder.  Each runs with the decoder's mutex held.      *)
(***************************************************************************)
\* a failed g_assert aborts the process
Running == ~last_op.assert_failed

\* the push calls of one handler that downstream may refuse (0: none)
RefuseChoices == 0..(num_source_symbols + 1)

ApplyInsert(res) ==
    /\ source_block_table' = res.tbl
    /\ most_recent_block_nr' = res.most_recent_block_nr
    /\ first_pruning' = res.first_pruning
    /\ pushed' = res.hist
    /\ encoding_symbol_length' = res.encoding_symbol_length
    /\ segment_started' = res.segment_started
    /\ stream_started' = res.stream_started
    /\ last_op' = res.report
    /\ seen_block_nrs' = seen_block_nrs \cup { res.report.block_nr }
    /\ accepted_ids' = IF res.report.outcome = "accepted"
                       THEN accepted_ids \cup { << res.report.block_nr, res.report.esi >> }
                       ELSE accepted_ids
    /\ processed_block_nrs' = IF res.report.processed
                              THEN Append(processed_block_nrs, res.report.block_nr)
                              ELSE processed_block_nrs

DropAfterEos(op) ==
    /\ last_op' = [ IdleReport(op) EXCEPT !.ret = "GST_FLOW_EOS" ]
    /\ UNCHANGED << source_block_table, most_recent_block_nr, first_pruning, pushed,
                    encoding_symbol_length, segment_started, stream_started,
                    seen_block_nrs, accepted_ids, processed_block_nrs >>

\* a FEC source packet of the encoder arrives on the fecsource pad
gst_rs_fec_dec_fecsource_chain(b, esi, refuse_at) ==
    /\ Running
    /\ arrivals < BoundArrivals
    /\ arrivals' = arrivals + 1
    /\ IF fecsource_eos
       THEN DropAfterEos("fecsource_chain")
       ELSE ApplyInsert(gst_rs_fec_dec_insert_fec_packet(
                            EncPacket(b, esi, num_source_symbols), TRUE, refuse_at))
    /\ UNCHANGED << num_source_symbols, num_repair_symbols, num_encoding_symbols,
                    max_source_block_age, sort_output, fecsource_eos, fecrepair_eos,
                    eos_pushed, auxVars >>

\* a repair chain function that drops its buffer after EOS on either pad
fecrepair_chain_drops_after_any_eos(b, esi, refuse_at) ==
    /\ Running
    /\ arrivals < BoundArrivals
    /\ arrivals' = arrivals + 1
    /\ IF fecrepair_eos \/ fecsource_eos
       THEN DropAfterEos("fecrepair_chain")
       ELSE ApplyInsert(gst_rs_fec_dec_insert_fec_packet(
                            EncPacket(b, esi, num_source_symbols), FALSE, refuse_at))
    /\ UNCHANGED << num_source_symbols, num_repair_symbols, num_encoding_symbols,
                    max_source_block_age, sort_output, fecsource_eos, fecrepair_eos,
                    eos_pushed, auxVars >>

\* a FEC repair packet of the encoder arrives on the fecrepair pad
gst_rs_fec_dec_fecrepair_chain(b, esi, refuse_at) ==
    /\ Running
    /\ arrivals < BoundArrivals
    /\ arrivals' = arrivals + 1
    /\ IF fecrepair_eos
       THEN DropAfterEos("fecrepair_chain")
       ELSE ApplyInsert(gst_rs_fec_dec_insert_fec_packet(
                            EncPacket(b, esi, num_source_symbols), FALSE, refuse_at))
    /\ UNCHANGED << num_source_symbols, num_repair_symbols, num_encoding_symbols,
                    max_source_block_age, sort_output, fecsource_eos, fecrepair_eos,
                    eos_pushed, auxVars >>

\* EOS of either sink pad taken as the end of the stream
EosJoin_either(src_eos, rep_eos, nrep) == src_eos \/ rep_eos

\* the condition of gst_rs_fec_dec_push_eos
EosJoin(src_eos, rep_eos, nrep) == src_eos /\ (rep_eos \/ (nrep = 0))

\* gst_rs_fec_dec_push_eos, run with the EOS flags src_eos / rep_eos
gst_rs_fec_dec_push_eos(op, src_eos, rep_eos, refuse_at) ==
    IF EosJoin(src_eos, rep_eos, num_repair_symbols)
    THEN LET dr == gst_rs_fec_dec_drain_source_block_table(
                       source_block_table, num_source_symbols,
                       [ hist |-> pushed, calls |-> 0, ret |-> "GST_FLOW_OK" ], refuse_at)
         IN  /\ stream_started' = TRUE
             /\ segment_started' = TRUE
             /\ source_block_table' = << >>
             /\ pushed' = dr.ds.hist
             /\ eos_pushed' = eos_pushed + 1
             /\ last_op' = [ IdleReport(op) EXCEPT
                                !.batch = dr.drained, !.ret = dr.ret, !.outcome = "drained",
                                !.pushes = SubSeq(dr.ds.hist, Len(pushed) + 1,
                                                  Len(dr.ds.hist)) ]
    ELSE /\ last_op' = IdleReport(op)
         /\ UNCHANGED << stream_started, segment_started, source_block_table, pushed,
                         eos_pushed >>

\* GST_EVENT_EOS on the fecsource pad (a pad delivers EOS once per session)
gst_rs_fec_dec_fecsource_event_eos(refuse_at) ==
    /\ Running
    /\ ~fecsource_eos
    /\ fecsource_eos' = TRUE
    /\ gst_rs_fec_dec_push_eos("fecsource_eos", TRUE, fecrepair_eos, refuse_at)
    /\ UNCHANGED << num_source_symbols, num_repair_symbols, num_encoding_symbols,
                    max_source_block_age, sort_output, encoding_symbol_length,
                    first_pruning, most_recent_block_nr, fecrepair_eos,
                    seen_block_nrs, accepted_ids, arrivals, processed_block_nrs,
                    auxVars >>

\* GST_EVENT_EOS on the fecrepair pad
gst_rs_fec_dec_fecrepair_event_eos(refuse_at) ==
    /\ Running
    /\ ~fecrepair_eos
    /\ fecrepair_eos' = TRUE
    /\ gst_rs_fec_dec_push_eos("fecrepair_eos", fecsource_eos, TRUE, refuse_at)
    /\ UNCHANGED << num_source_symbols, num_repair_symbols, num_encoding_symbols,
                    max_source_block_age, sort_output, encoding_symbol_length,
                    first_pruning, most_recent_block_nr, fecsource_eos,
                    seen_block_nrs, accepted_ids, arrivals, processed_block_nrs,
                    auxVars >>

\* what gst_rs_fec_dec_flush does: every block is destroyed and removed,
\* gst_rs_fec_dec_reset_states is called; the session histories start over
FlushedTable ==
    /\ source_block_table' = << >>
    /\ first_pruning' = TRUE
    /\ segment_started' = FALSE
    /\ fecsource_eos' = FALSE
    /\ fecrepair_eos' = FALSE
    /\ pushed' = <<>>
    /\ eos_pushed' = 0
    /\ seen_block_nrs' = {}
    /\ accepted_ids' = {}
    /\ processed_block_nrs' = <<>>

\* GST_EVENT_FLUSH_STOP on either sink pad: gst_rs_fec_dec_flush, which
\* destroys every block and calls gst_rs_fec_dec_reset_states.  A new
\* session starts: the session histories start over.
gst_rs_fec_dec_flush ==
    /\ Running
    /\ last_op.op # "flush"
    /\ FlushedTable
    /\ last_op' = IdleReport("flush")
    /\ UNCHANGED << num_source_symbols, num_repair_symbols, num_encoding_symbols,
                    max_source_block_age, sort_output, encoding_symbol_length,
                    most_recent_block_nr, stream_started, arrivals, auxVars >>

Next ==
    \/ \E b \in BlockNrs, esi \in 0..(num_source_symbols - 1), refuse_at \in RefuseChoices :
           gst_rs_fec_dec_fecsource_chain(b, esi, refuse_at)
    \/ \E b \in BlockNrs, esi \in num_source_symbols..(num_encoding_symbols - 1),
          refuse_at \in RefuseChoices :
           gst_rs_fec_dec_fecrepair_chain(b, esi, refuse_at)
    \/ \E refuse_at \in RefuseChoices : gst_rs_fec_dec_fecsource_event_eos(refuse_at)
    \/ \E refuse_at \in RefuseChoices : gst_rs_fec_dec_fecrepair_event_eos(refuse_at)
    \/ gst_rs_fec_dec_flush

Spec == Init /\ [][Next]_vars

(***************************************************************************)
(* Short blocks: the same handlers on a decoder configured with one source *)
(* symbol less per block, so that a block is complete, and a completed     *)
(* block can receive further packets, within the bound on the arrivals     *)
(***************************************************************************)
InitShort ==
    /\ DecInit({BoundSourceSymbols - 1}, {BoundRepairSymbols - 1}, 1..BoundBlockAge, BOOLEAN)
    /\ AgeIdle
    /\ EncIdle
    /\ CodecIdle
    /\ EnvIdle

SpecShort == InitShort /\ [][Next]_vars

(***************************************************************************)
(* Arbitrary packets: the two chain functions fed with packets whose ESI   *)
(* field is not the one the encoder writes on that pad, on decoders with   *)
(* and without repair symbols                                              *)
(***************************************************************************)
\* block numbers of the arbitrary packets
WildBlockNrs == { 0, 1 }

\* ESI fields of the arbitrary packets: a source ESI, the first repair ESI
\* and the first ESI past the largest n of these runs
WildEsis == { 0, BoundSourceSymbols, BoundSourceSymbols + BoundRepairSymbols }

InitWild ==
    /\ DecInit({BoundSourceSymbols}, {0, BoundRepairSymbols}, {BoundBlockAge}, BOOLEAN)
    /\ AgeIdle
    /\ EncIdle
    /\ CodecIdle
    /\ EnvIdle

\* the process goes on after the last handler: no g_assert failed and no
\* write past the end of an output_adu_table has brought it down
WildRunning == Running /\ last_op.outcome # "memory_fault"

\* output_adu_table[esi] = adu with esi >= k writes past the end of the
\* table: the process goes on with corrupted memory or is brought down
WildOutcome(res, faults) ==
    IF res.report.out_of_range_index /\ faults
    THEN [ res EXCEPT !.report.outcome = "memory_fault" ]
    ELSE res

\* a packet ending in a payload ID with any ESI arrives on the fecsource pad
WildSourceArrival(b, esi, refuse_at, faults) ==
    /\ WildRunning
    /\ arrivals < BoundArrivals
    /\ arrivals' = arrivals + 1
    /\ IF fecsource_eos
       THEN DropAfterEos("fecsource_chain")
       ELSE ApplyInsert(WildOutcome(
                gst_rs_fec_dec_insert_fec_packet(
                    EncSourcePacket(b, esi, num_source_symbols), TRUE, refuse_at),
                faults))
    /\ UNCHANGED << num_source_symbols, num_repair_symbols, num_encoding_symbols,
                    max_source_block_age, sort_output, fecsource_eos, fecrepair_eos,
                    eos_pushed, auxVars >>

\* a packet starting with a payload ID with any ESI arrives on the fecrepair
\* pad, whatever num_repair_symbols is
WildRepairArrival(b, esi, refuse_at) ==
    /\ WildRunning
    /\ arrivals < BoundArrivals
    /\ arrivals' = arrivals + 1
    /\ IF fecrepair_eos
       THEN DropAfterEos("fecrepair_chain")
       ELSE ApplyInsert(gst_rs_fec_dec_insert_fec_packet(
                            EncRepairPacket(b, esi - num_source_symbols, num_source_symbols),
                            FALSE, refuse_at))
    /\ UNCHANGED << num_source_symbols, num_repair_symbols, num_encoding_symbols,
                    max_source_block_age, sort_output, fecsource_eos, fecrepair_eos,
                    eos_pushed, auxVars >>

NextWild ==
    \/ \E b \in WildBlockNrs, esi \in WildEsis, refuse_at \in RefuseChoices, faults \in BOOLEAN :
           WildSourceArrival(b, esi, refuse_at, faults)
    \/ \E b \in WildBlockNrs, esi \in WildEsis, refuse_at \in RefuseChoices :
           WildRepairArrival(b, esi, refuse_at)
    \/ \E refuse_at \in RefuseChoices :
           WildRunning /\ gst_rs_fec_dec_fecsource_event_eos(refuse_at)
    \/ \E refuse_at \in RefuseChoices :
           WildRunning /\ gst_rs_fec_dec_fecrepair_event_eos(refuse_at)

SpecWild == InitWild /\ [][NextWild]_vars

(***************************************************************************)
(* Collaborator faults: the handlers of the decoder on runs in which       *)
(* OpenFEC reports a status other than OF_STATUS_OK when it decodes        *)
(***************************************************************************)
\* of_status_t values of a failed call
OfFaults == { "OF_STATUS_FAILURE", "OF_STATUS_FATAL_ERROR" }

InitFault ==
    /\ DecInit({BoundSourceSymbols}, {BoundRepairSymbols}, {BoundBlockAge}, BOOLEAN)
    /\ AgeIdle
    /\ EncIdle
    /\ CodecIdle
    /\ of_fault \in OfFaults
    /\ of_release_fault = "none"
    /\ last_set = NoSet("decoder")
    /\ dec_state = "PAUSED"
    /\ allocated_encoding_symbol_table = TRUE
    /\ openfec_session = TRUE
    /\ rs_mutex = "none"
    /\ thread_op = [ t \in Threads |-> "none" ]

SpecFault == InitFault /\ [][Next]_vars

(***************************************************************************)
(* Release faults: the same handlers on runs in which OpenFEC fails to     *)
(* release the session at the end of block processing, with or without a   *)
(* failed decoding call before it                                          *)
(***************************************************************************)
InitRelease ==
    /\ DecInit({BoundSourceSymbols}, {BoundRepairSymbols}, {1}, BOOLEAN)
    /\ AgeIdle
    /\ EncIdle
    /\ CodecIdle
    /\ of_fault \in { "none" } \cup OfFaults
    /\ of_release_fault \in OfFaults
    /\ last_set = NoSet("decoder")
    /\ dec_state = "PAUSED"
    /\ allocated_encoding_symbol_table = TRUE
    /\ openfec_session = TRUE
    /\ rs_mutex = "none"
    /\ thread_op = [ t \in Threads |-> "none" ]

SpecRelease == InitRelease /\ [][Next]_vars

(***************************************************************************)
(* In-order runs: blocks 0, 1, 2, ... receive one packet each, in that     *)
(* order, on a decoder with max-source-block-age 1 in sorted mode          *)
(***************************************************************************)
\* the number of blocks of an in-order run
BoundInOrderBlocks == 4

InitInOrder ==
    /\ DecInit({BoundSourceSymbols}, {0, BoundRepairSymbols}, {1}, {TRUE})
    /\ AgeIdle
    /\ EncIdle
    /\ CodecIdle
    /\ EnvIdle

\* the single packet of the next block arrives on the pad of its kind; no
\* EOS was received, so the chain function inserts it
InOrderArrival(esi, refuse_at) ==
    /\ Running
    /\ arrivals < BoundInOrderBlocks
    /\ arrivals' = arrivals + 1
    /\ ApplyInsert(gst_rs_fec_dec_insert_fec_packet(
                       EncPacket(arrivals, esi, num_source_symbols),
                       esi < num_source_symbols, refuse_at))
    /\ UNCHANGED << num_source_symbols, num_repair_symbols, num_encoding_symbols,
                    max_source_block_age, sort_output, fecsource_eos, fecrepair_eos,
                    eos_pushed, auxVars >>

NextInOrder ==
    \E esi \in 0..(num_encoding_symbols - 1), refuse_at \in RefuseChoices :
        InOrderArrival(esi, refuse_at)

SpecInOrder == InitInOrder /\ [][NextInOrder]_vars

(***************************************************************************)
(* Aging runs: the two classification functions applied to block numbers   *)
(* around the wrap point and around the edges of the newer window, and to  *)
(* values of the max-source-block-age property (a guint, 1..G_MAXUINT).    *)
(***************************************************************************)
AgeReferences ==
    { 0, 1, newer_range - 1, newer_range, total_range - newer_range,
      total_range - newer_range + 1, total_range - 2, total_range - 1 }

\* distance of the candidate ahead of the reference, modulo total_range
AgeOffsets ==
    { 0, 1, 2, newer_range - 2, newer_range - 1, newer_range, newer_range + 1,
      total_range - newer_range - 1, total_range - newer_range,
      total_range - 3, total_range - 2, total_range - 1 }

AgeMaxAges ==
    { 1, 2, 3, newer_range, total_range - newer_range, total_range - newer_range + 1,
      total_range - newer_range + 2, total_range - 1, total_range, 2147483647 }

InitAge ==
    /\ DecInit({BoundSourceSymbols}, {BoundRepairSymbols}, {1}, {TRUE})
    /\ \E ref \in AgeReferences, off \in AgeOffsets, age \in AgeMaxAges :
           age_in = [ candidate_block_nr |-> (ref + off) % total_range,
                      reference_block_nr |-> ref, max_age |-> age ]
    /\ age_out = [ called |-> "none", result |-> FALSE ]
    /\ EncIdle
    /\ CodecIdle
    /\ EnvIdle

AgeIsNewer ==
    /\ age_out' = [ called |-> "is_source_block_nr_newer",
                    result |-> gst_rs_fec_dec_is_source_block_nr_newer(
                                   age_in.candidate_block_nr, age_in.reference_block_nr) ]
    /\ UNCHANGED << age_in, decVars, encVars, codecVars, envVars >>

AgeIsRecentEnough ==
    /\ age_out' = [ called |-> "is_source_block_nr_recent_enough",
                    result |-> gst_rs_fec_dec_is_source_block_nr_recent_enough(
                                   age_in.candidate_block_nr, age_in.reference_block_nr,
                                   age_in.max_age) ]
    /\ UNCHANGED << age_in, decVars, encVars, codecVars, envVars >>

NextAge == AgeIsNewer \/ AgeIsRecentEnough

SpecAge == InitAge /\ [][NextAge]_vars

(***************************************************************************)
(* Encoder.  The operators work on a record es of the encoder's fields:    *)
(* cur_source_block_nr, cur_num_adus, cur_max_adu_length, adu_table,       *)
(* eos_received, and the histories hist (pad pushes) and collected.  The   *)
(* stream-start, caps and segment events and the DISCONT flags are left    *)
(* out.                                                                    *)
(***************************************************************************)
\* a counter that stays where it is
guint_stuck(v) == v

\* rs_fec_enc->cur_source_block_nr++ on a guint
guint_increment(v) ==
    IF v.lo = total_range - 1
    THEN [ hi |-> (v.hi + 1) % GuintHighRange, lo |-> 0 ]
    ELSE [ v EXCEPT !.lo = @ + 1 ]

\* a < b on guint
guint_less(a, b) == a.hi < b.hi \/ (a.hi = b.hi /\ a.lo < b.lo)

gst_rs_fec_enc_flush_all_adus(es, nsrc) ==
    IF es.cur_num_adus = 0
    THEN es
    ELSE [ es EXCEPT !.adu_table = [ e \in 0..(nsrc - 1) |-> EncNull ],
                     !.cur_num_adus = 0 ]

gst_rs_fec_enc_reset_states(es) ==
    [ es EXCEPT !.cur_max_adu_length = 0, !.eos_received = FALSE ]

\* a flush that only resets the states and keeps the collected ADUs
flush_keeps_adus(es, nsrc) == gst_rs_fec_enc_reset_states(es)

gst_rs_fec_enc_flush(es, nsrc) ==
    gst_rs_fec_enc_reset_states(gst_rs_fec_enc_flush_all_adus(es, nsrc))

gst_rs_fec_enc_insert_adu(es, adu, esi) ==
    [ es EXCEPT !.cur_max_adu_length = Max(adu.size, @),
                !.adu_table[esi] = adu ]

\* a source packet whose ESI is counted from one
push_adu_esi_from_one(es, adu, esi, nsrc, ret) ==
    [ es EXCEPT !.hist = Append(@,
        [ pad |-> "fecsource",
          payload_id |-> fec_payload_id(es.cur_source_block_nr.lo, esi + 1, nsrc),
          adu |-> adu,
          built_from |-> <<>>,
          size |-> adu.size + FEC_PAYLOAD_ID_LENGTH,
          collected |-> es.collected,
          ret |-> ret ]) ]

\* the source packet is the ADU followed by the payload ID
gst_rs_fec_enc_push_adu(es, adu, esi, nsrc, ret) ==
    [ es EXCEPT !.hist = Append(@,
        [ pad |-> "fecsource",
          payload_id |-> fec_payload_id(es.cur_source_block_nr.lo, esi, nsrc),
          adu |-> adu,
          built_from |-> <<>>,
          size |-> adu.size + FEC_PAYLOAD_ID_LENGTH,
          collected |-> es.collected,
          ret |-> ret ]) ]

\* a cleanup that keeps cur_max_adu_length for the next block
EncCleanup_keeps_length(es, nsrc) ==
    [ gst_rs_fec_enc_flush_all_adus(es, nsrc) EXCEPT !.collected = 0 ]

\* the end of gst_rs_fec_enc_process_source_block, from the cleanup label
EncCleanup(es, nsrc) ==
    [ gst_rs_fec_enc_flush_all_adus(es, nsrc) EXCEPT !.cur_max_adu_length = 0,
                                                     !.collected = 0 ]

\* the loop that builds and pushes repair packet i, i + 1, ..., r - 1; the
\* repair packet is the payload ID followed by the repair symbol
RECURSIVE EncRepairLoop(_, _, _, _, _, _, _, _)
EncRepairLoop(es, i, source_block_nr, sources, nsrc, nrep, build_fails_at, refuse_at) ==
    IF i >= nrep
    THEN [ es |-> es, ret |-> "GST_FLOW_OK", failure |-> "none" ]
    ELSE IF build_fails_at = i
    THEN [ es |-> es, ret |-> "GST_FLOW_ERROR", failure |-> "build" ]
    ELSE LET ret == IF refuse_at = i + 2 THEN "GST_FLOW_FLUSHING" ELSE "GST_FLOW_OK"
             es1 == [ es EXCEPT !.hist = Append(@,
                       [ pad |-> "fecrepair",
                         payload_id |-> fec_payload_id(source_block_nr.lo, i + nsrc, nsrc),
                         adu |-> EncNull,
                         built_from |-> sources,
                         size |-> FEC_PAYLOAD_ID_LENGTH + 1 + 2 + es.cur_max_adu_length,
                         collected |-> es.collected,
                         ret |-> ret ]) ]
         IN  IF ret # "GST_FLOW_OK"
             THEN [ es |-> es1, ret |-> ret, failure |-> "none" ]
             ELSE EncRepairLoop(es1, i + 1, source_block_nr, sources, nsrc, nrep,
                                build_fails_at, refuse_at)

\* failure: "none", "configure" (gst_rs_fec_enc_configure_fec fails) or
\* "build" (of_build_repair_symbol fails at repair packet build_fails_at);
\* refuse_at: the push of the call that downstream refuses (1: the source
\* packet, i + 2: repair packet i, 0: none)
gst_rs_fec_enc_process_source_block(es, nsrc, nrep, failure, build_fails_at, refuse_at) ==
    IF es.cur_num_adus < nsrc
    THEN [ es |-> es, ret |-> "GST_FLOW_OK", processed |-> FALSE, failure |-> "none" ]
    ELSE IF nrep > 0 /\ failure = "configure"
    THEN [ es |-> EncCleanup(es, nsrc), ret |-> "GST_FLOW_ERROR", processed |-> TRUE,
           failure |-> "configure" ]
    ELSE LET sources == [ i \in 1..nsrc |-> es.adu_table[i - 1].id ]
             es1 == IF nrep > 0
                    THEN [ es EXCEPT !.adu_table = [ e \in 0..(nsrc - 1) |-> EncNull ],
                                     !.cur_num_adus = @ - nsrc ]
                    ELSE es
             lp  == EncRepairLoop(es1, 0, es.cur_source_block_nr, sources, nsrc, nrep,
                                  IF failure = "build" THEN build_fails_at ELSE -1,
                                  refuse_at)
             es2 == IF lp.ret = "GST_FLOW_OK"
                    THEN [ lp.es EXCEPT !.cur_source_block_nr = guint_increment(@) ]
                    ELSE lp.es
         IN  [ es |-> EncCleanup(es2, nsrc), ret |-> lp.ret, processed |-> TRUE,
               failure |-> lp.failure ]

\* the encoder's fields as a record, and back
EncFields ==
    [ cur_source_block_nr |-> cur_source_block_nr, cur_num_adus |-> cur_num_adus,
      cur_max_adu_length |-> cur_max_adu_length, adu_table |-> adu_table,
      eos_received |-> eos_received, hist |-> enc_pushed, collected |-> enc_collected ]

EncStore(es, report) ==
    /\ cur_source_block_nr' = es.cur_source_block_nr
    /\ cur_num_adus' = es.cur_num_adus
    /\ cur_max_adu_length' = es.cur_max_adu_length
    /\ adu_table' = es.adu_table
    /\ eos_received' = es.eos_received
    /\ enc_pushed' = es.hist
    /\ enc_collected' = es.collected
    /\ enc_last_op' = [ report EXCEPT
                          !.pushes = SubSeq(es.hist, Len(enc_pushed) + 1, Len(es.hist)),
                          !.adus_before = cur_num_adus ]

gst_rs_fec_enc_sink_chain ==
    /\ enc_state = "PAUSED"
    /\ enc_arrivals < BoundEncArrivals
    /\ enc_arrivals' = enc_arrivals + 1
    /\ \E size \in AduSizes, refuse_at \in 0..(num_repair_symbols + 1),
          failure \in { "none", "configure", "build" },
          build_fails_at \in 0..Max(num_repair_symbols - 1, 0) :
        LET adu == [ id |-> enc_arrivals + 1, size |-> size ]
            es  == EncFields
            rp  == [ EncReport("chain") EXCEPT !.adu = adu ]
        IN  /\ (failure = "none") => (build_fails_at = 0)
            /\ (failure = "configure") => (build_fails_at = 0 /\ num_repair_symbols > 0)
            /\ (failure = "build") => (num_repair_symbols > 0)
            /\ IF es.eos_received
               THEN EncStore(es, [ rp EXCEPT !.ret = "GST_FLOW_EOS" ])
               ELSE IF size > MaxAduSize
               THEN EncStore(es, [ rp EXCEPT !.ret = "GST_FLOW_ERROR" ])
               ELSE LET esi == es.cur_num_adus
                        ret == IF refuse_at = 1 THEN "GST_FLOW_FLUSHING" ELSE "GST_FLOW_OK"
                        es1 == gst_rs_fec_enc_push_adu(es, adu, esi, num_source_symbols, ret)
                        es2 == [ gst_rs_fec_enc_insert_adu(es1, adu, esi) EXCEPT
                                   !.cur_num_adus = @ + 1, !.collected = @ + 1 ]
                        pr  == gst_rs_fec_enc_process_source_block(
                                   es2, num_source_symbols, num_repair_symbols,
                                   failure, build_fails_at, refuse_at)
                    IN  IF ret # "GST_FLOW_OK"
                        THEN EncStore(es1, [ rp EXCEPT !.ret = ret ])
                        ELSE EncStore(pr.es, [ rp EXCEPT !.ret = pr.ret,
                                                         !.processed = pr.processed,
                                                         !.failure = pr.failure ])
    /\ UNCHANGED << enc_state, decVars, ageVars, codecVars, envVars >>

\* GST_EVENT_FLUSH_STOP on the sink pad
gst_rs_fec_enc_sink_event_flush_stop ==
    /\ enc_state = "PAUSED"
    /\ EncStore([ gst_rs_fec_enc_flush(EncFields, num_source_symbols) EXCEPT !.collected = 0 ],
                EncReport("flush_stop"))
    /\ UNCHANGED << enc_state, enc_arrivals, decVars, ageVars, codecVars, envVars >>

\* GST_EVENT_EOS on the sink pad
gst_rs_fec_enc_sink_event_eos ==
    /\ enc_state = "PAUSED"
    /\ EncStore([ gst_rs_fec_enc_flush_all_adus(EncFields, num_source_symbols) EXCEPT
                    !.eos_received = TRUE, !.collected = 0 ],
                EncReport("eos"))
    /\ UNCHANGED << enc_state, enc_arrivals, decVars, ageVars, codecVars, envVars >>

\* GST_STATE_CHANGE_PAUSED_TO_READY
gst_rs_fec_enc_change_state_paused_to_ready ==
    /\ enc_state = "PAUSED"
    /\ enc_state' = "READY"
    /\ EncStore([ gst_rs_fec_enc_flush(EncFields, num_source_symbols) EXCEPT !.collected = 0 ],
                EncReport("paused_to_ready"))
    /\ UNCHANGED << enc_arrivals, decVars, ageVars, codecVars, envVars >>

\* GST_STATE_CHANGE_READY_TO_PAUSED
gst_rs_fec_enc_change_state_ready_to_paused ==
    /\ enc_state = "READY"
    /\ enc_state' = "PAUSED"
    /\ EncStore(gst_rs_fec_enc_reset_states(EncFields), EncReport("ready_to_paused"))
    /\ UNCHANGED << enc_arrivals, decVars, ageVars, codecVars, envVars >>

\* values of the block counter of an encoder that has completed none, 2^24 - 1
\* and 2^32 - 1 blocks
EncBlockNrs ==
    { [ hi |-> 0, lo |-> 0 ],
      [ hi |-> 0, lo |-> total_range - 1 ],
      [ hi |-> GuintHighRange - 1, lo |-> total_range - 1 ] }

InitEnc ==
    /\ DecInit(1..BoundSourceSymbols, {0, BoundRepairSymbols}, {1}, {TRUE})
    /\ AgeIdle
    /\ EncInit(EncBlockNrs)
    /\ CodecIdle
    /\ EnvIdle

NextEnc ==
    \/ gst_rs_fec_enc_sink_chain
    \/ gst_rs_fec_enc_sink_event_flush_stop
    \/ gst_rs_fec_enc_sink_event_eos
    \/ gst_rs_fec_enc_change_state_paused_to_ready
    \/ gst_rs_fec_enc_change_state_ready_to_paused

SpecEnc == InitEnc /\ [][NextEnc]_vars

(***************************************************************************)
(* Configuration runs: set_property and change_state of one element, the   *)
(* decoder or the encoder, starting in the NULL state; the decoder also    *)
(* receives source packets while it is PAUSED                              *)
(***************************************************************************)
\* guint const max_num_encoding_symbols = (1 << 8) - 1
max_num_encoding_symbols == 255

\* values handed to set_property for num-source-symbols
ConfSourceValues == { BoundSourceSymbols, BoundSourceSymbols + 1 }

\* values handed to set_property for num-repair-symbols
ConfRepairValues ==
    { 0, BoundRepairSymbols, max_num_encoding_symbols - BoundSourceSymbols,
      max_num_encoding_symbols - BoundSourceSymbols + 1 }

\* the packets a PAUSED decoder receives in these runs
ConfBlockNrs == { 0, 1 }
ConfEsis == 0..(BoundSourceSymbols - 1)

\* the state of a decoding session
sessionVars == << encoding_symbol_length, source_block_table, first_pruning,
                  most_recent_block_nr, segment_started, stream_started, fecsource_eos,
                  fecrepair_eos, pushed, eos_pushed, seen_block_nrs, accepted_ids,
                  last_op, arrivals, processed_block_nrs >>

lockVars == << rs_mutex, thread_op >>

SetReport(element, prop, value, message) ==
    [ element |-> element, prop |-> prop, value |-> value, message |-> message ]

\* the message posted after the assignment when k + r exceeds the maximum
TotalMessage(nenc) ==
    IF nenc > max_num_encoding_symbols THEN "GST_ELEMENT_ERROR" ELSE "none"

\* PROP_NUM_SOURCE_SYMBOLS of the decoder
gst_rs_fec_dec_set_property_num_source_symbols(value) ==
    /\ IF ~allocated_encoding_symbol_table
       THEN /\ num_source_symbols' = value
            /\ num_encoding_symbols' = value + num_repair_symbols
            /\ last_set' = SetReport("decoder", "num-source-symbols", value,
                                     TotalMessage(value + num_repair_symbols))
       ELSE /\ UNCHANGED << num_source_symbols, num_encoding_symbols >>
            /\ last_set' = SetReport("decoder", "num-source-symbols", value,
                                     "GST_ELEMENT_WARNING")
    /\ UNCHANGED << num_repair_symbols, max_source_block_age, sort_output, sessionVars,
                    ageVars, encVars, codecVars, of_fault, of_release_fault, dec_state,
                    allocated_encoding_symbol_table, openfec_session, lockVars >>

\* PROP_NUM_REPAIR_SYMBOLS of the decoder
gst_rs_fec_dec_set_property_num_repair_symbols(value) ==
    /\ IF ~allocated_encoding_symbol_table
       THEN /\ num_repair_symbols' = value
            /\ num_encoding_symbols' = num_source_symbols + value
            /\ last_set' = SetReport("decoder", "num-repair-symbols", value,
                                     TotalMessage(num_source_symbols + value))
       ELSE /\ UNCHANGED << num_repair_symbols, num_encoding_symbols >>
            /\ last_set' = SetReport("decoder", "num-repair-symbols", value,
                                     "GST_ELEMENT_WARNING")
    /\ UNCHANGED << num_source_symbols, max_source_block_age, sort_output, sessionVars,
                    ageVars, encVars, codecVars, of_fault, of_release_fault, dec_state,
                    allocated_encoding_symbol_table, openfec_session, lockVars >>

\* PROP_SORT_OUTPUT of the decoder: assigned under GST_OBJECT_LOCK whatever
\* the state of the element is
gst_rs_fec_dec_set_property_sort_output(value) ==
    /\ sort_output' = value
    /\ last_set' = SetReport("decoder", "sort-output", IF value THEN 1 ELSE 0, "none")
    /\ UNCHANGED << num_source_symbols, num_repair_symbols, num_encoding_symbols,
                    max_source_block_age, sessionVars, ageVars, encVars, codecVars,
                    of_fault, of_release_fault, dec_state, allocated_encoding_symbol_table,
                    openfec_session, lockVars >>

\* PROP_NUM_SOURCE_SYMBOLS of the encoder
gst_rs_fec_enc_set_property_num_source_symbols(value) ==
    /\ IF ~openfec_session
       THEN /\ num_source_symbols' = value
            /\ num_encoding_symbols' = value + num_repair_symbols
            /\ last_set' = SetReport("encoder", "num-source-symbols", value,
                                     TotalMessage(value + num_repair_symbols))
       ELSE /\ UNCHANGED << num_source_symbols, num_encoding_symbols >>
            /\ last_set' = SetReport("encoder", "num-source-symbols", value,
                                     "GST_ELEMENT_WARNING")
    /\ UNCHANGED << num_repair_symbols, max_source_block_age, sort_output, sessionVars,
                    ageVars, encVars, codecVars, of_fault, of_release_fault, dec_state,
                    allocated_encoding_symbol_table, openfec_session, lockVars >>

\* PROP_NUM_REPAIR_SYMBOLS of the encoder
gst_rs_fec_enc_set_property_num_repair_symbols(value) ==
    /\ IF ~openfec_session
       THEN /\ num_repair_symbols' = value
            /\ num_encoding_symbols' = num_source_symbols + value
            /\ last_set' = SetReport("encoder", "num-repair-symbols", value,
                                     TotalMessage(num_source_symbols + value))
       ELSE /\ UNCHANGED << num_repair_symbols, num_encoding_symbols >>
            /\ last_set' = SetReport("encoder", "num-repair-symbols", value,
                                     "GST_ELEMENT_WARNING")
    /\ UNCHANGED << num_source_symbols, max_source_block_age, sort_output, sessionVars,
                    ageVars, encVars, codecVars, of_fault, of_release_fault, dec_state,
                    allocated_encoding_symbol_table, openfec_session, lockVars >>

\* what a state change of the decoder leaves alone
DecStateChangeKeeps ==
    UNCHANGED << num_source_symbols, num_repair_symbols, num_encoding_symbols,
                 max_source_block_age, sort_output, most_recent_block_nr, arrivals,
                 ageVars, encVars, codecVars, of_fault, of_release_fault, openfec_session, lockVars,
                 last_set >>

\* GST_STATE_CHANGE_NULL_TO_READY: gst_rs_fec_dec_alloc_encoding_symbol_table
gst_rs_fec_dec_change_state_null_to_ready ==
    /\ dec_state = "NULL"
    /\ dec_state' = "READY"
    /\ allocated_encoding_symbol_table' = TRUE
    /\ last_op' = [ IdleReport("null_to_ready") EXCEPT
                       !.assert_failed = allocated_encoding_symbol_table
                                            \/ encoding_symbol_length # 0 ]
    /\ UNCHANGED << encoding_symbol_length, source_block_table, first_pruning,
                    segment_started, stream_started, fecsource_eos, fecrepair_eos,
                    pushed, eos_pushed, seen_block_nrs, accepted_ids,
                    processed_block_nrs >>
    /\ DecStateChangeKeeps

\* GST_STATE_CHANGE_READY_TO_PAUSED: gst_rs_fec_dec_reset_states
gst_rs_fec_dec_change_state_ready_to_paused ==
    /\ dec_state = "READY"
    /\ dec_state' = "PAUSED"
    /\ first_pruning' = TRUE
    /\ segment_started' = FALSE
    /\ fecsource_eos' = FALSE
    /\ fecrepair_eos' = FALSE
    /\ last_op' = IdleReport("ready_to_paused")
    /\ UNCHANGED << encoding_symbol_length, source_block_table, stream_started,
                    pushed, eos_pushed, seen_block_nrs, accepted_ids,
                    processed_block_nrs, allocated_encoding_symbol_table >>
    /\ DecStateChangeKeeps

\* GST_STATE_CHANGE_PAUSED_TO_READY: gst_rs_fec_dec_flush, then
\* stream_started = FALSE
gst_rs_fec_dec_change_state_paused_to_ready ==
    /\ dec_state = "PAUSED"
    /\ dec_state' = "READY"
    /\ FlushedTable
    /\ stream_started' = FALSE
    /\ last_op' = IdleReport("paused_to_ready")
    /\ UNCHANGED << encoding_symbol_length, allocated_encoding_symbol_table >>
    /\ DecStateChangeKeeps

\* GST_STATE_CHANGE_READY_TO_NULL: gst_rs_fec_dec_free_encoding_symbol_table,
\* then encoding_symbol_length = 0
gst_rs_fec_dec_change_state_ready_to_null ==
    /\ dec_state = "READY"
    /\ dec_state' = "NULL"
    /\ allocated_encoding_symbol_table' = FALSE
    /\ encoding_symbol_length' = 0
    /\ last_op' = [ IdleReport("ready_to_null") EXCEPT
                       !.assert_failed = ~allocated_encoding_symbol_table ]
    /\ UNCHANGED << source_block_table, first_pruning, segment_started, stream_started,
                    fecsource_eos, fecrepair_eos, pushed, eos_pushed, seen_block_nrs,
                    accepted_ids, processed_block_nrs >>
    /\ DecStateChangeKeeps

\* GST_STATE_CHANGE_NULL_TO_READY of the encoder: gst_rs_fec_enc_init_openfec
\* creates the session and allocates the tables
gst_rs_fec_enc_change_state_null_to_ready ==
    /\ enc_state = "NULL"
    /\ enc_state' = "READY"
    /\ openfec_session' = TRUE
    /\ adu_table' = IF openfec_session THEN adu_table
                    ELSE [ e \in 0..(num_source_symbols - 1) |-> EncNull ]
    /\ enc_last_op' = EncReport("null_to_ready")
    /\ UNCHANGED << cur_source_block_nr, cur_num_adus, cur_max_adu_length, eos_received,
                    enc_pushed, enc_collected, enc_arrivals, decVars, ageVars, codecVars,
                    of_fault, of_release_fault, dec_state, allocated_encoding_symbol_table, lockVars,
                    last_set >>

\* GST_STATE_CHANGE_READY_TO_NULL of the encoder:
\* gst_rs_fec_enc_shutdown_openfec frees the tables and releases the session
gst_rs_fec_enc_change_state_ready_to_null ==
    /\ enc_state = "READY"
    /\ enc_state' = "NULL"
    /\ openfec_session' = FALSE
    /\ adu_table' = IF openfec_session THEN << >> ELSE adu_table
    /\ enc_last_op' = EncReport("ready_to_null")
    /\ UNCHANGED << cur_source_block_nr, cur_num_adus, cur_max_adu_length, eos_received,
                    enc_pushed, enc_collected, enc_arrivals, decVars, ageVars, codecVars,
                    of_fault, of_release_fault, dec_state, allocated_encoding_symbol_table, lockVars,
                    last_set >>

\* the element of the run is in the NULL state after construction, the
\* other one is idle
InitConf ==
    /\ DecInit({BoundSourceSymbols}, {0, BoundRepairSymbols}, {1}, BOOLEAN)
    /\ AgeIdle
    /\ CodecIdle
    /\ of_fault = "none"
    /\ of_release_fault = "none"
    /\ rs_mutex = "none"
    /\ thread_op = [ t \in Threads |-> "none" ]
    /\ \/ /\ last_set = NoSet("decoder")
          /\ dec_state = "NULL"
          /\ allocated_encoding_symbol_table = FALSE
          /\ EncIdle
          /\ openfec_session = TRUE
       \/ /\ last_set = NoSet("encoder")
          /\ dec_state = "PAUSED"
          /\ allocated_encoding_symbol_table = TRUE
          /\ openfec_session = FALSE
          /\ cur_source_block_nr = [ hi |-> 0, lo |-> 0 ]
          /\ cur_num_adus = 0
          /\ cur_max_adu_length = 0
          /\ adu_table = << >>
          /\ eos_received = FALSE
          /\ enc_state = "NULL"
          /\ enc_pushed = <<>>
          /\ enc_collected = 0
          /\ enc_last_op = EncReport("init")
          /\ enc_arrivals = 0

ConfDecoder == last_set.element = "decoder"
ConfEncoder == last_set.element = "encoder"

NextConf ==
    \/ \E v \in ConfSourceValues :
           ConfDecoder /\ gst_rs_fec_dec_set_property_num_source_symbols(v)
    \/ \E v \in ConfRepairValues :
           ConfDecoder /\ gst_rs_fec_dec_set_property_num_repair_symbols(v)
    \/ \E v \in BOOLEAN :
           ConfDecoder /\ gst_rs_fec_dec_set_property_sort_output(v)
    \/ ConfDecoder /\ gst_rs_fec_dec_change_state_null_to_ready
    \/ ConfDecoder /\ gst_rs_fec_dec_change_state_ready_to_paused
    \/ ConfDecoder /\ gst_rs_fec_dec_change_state_paused_to_ready
    \/ ConfDecoder /\ gst_rs_fec_dec_change_state_ready_to_null
    \/ \E b \in ConfBlockNrs, esi \in ConfEsis :
           /\ ConfDecoder
           /\ dec_state = "PAUSED"
           /\ gst_rs_fec_dec_fecsource_chain(b, esi, 0)
    \/ \E v \in ConfSourceValues :
           ConfEncoder /\ gst_rs_fec_enc_set_property_num_source_symbols(v)
    \/ \E v \in ConfRepairValues :
           ConfEncoder /\ gst_rs_fec_enc_set_property_num_repair_symbols(v)
    \/ ConfEncoder /\ gst_rs_fec_enc_change_state_null_to_ready
    \/ ConfEncoder /\ gst_rs_fec_enc_change_state_ready_to_paused
    \/ ConfEncoder /\ gst_rs_fec_enc_change_state_paused_to_ready
    \/ ConfEncoder /\ gst_rs_fec_enc_change_state_ready_to_null

SpecConf == InitConf /\ [][NextConf]_vars

(***************************************************************************)
(* Threads: the streaming threads of the two sink pads and the application *)
(* thread call into a PAUSED decoder.  A handler takes two steps: it       *)
(* enters (taking rs_fec_dec->mutex where its code does) and it runs to    *)
(* its end (releasing the mutex it took).  The streaming threads call in   *)
(* while the element is PAUSED.                                            *)
(***************************************************************************)
StreamingThreads == { "fecsource", "fecrepair" }

\* block numbers of the packets of these runs
LockBlockNrs == { 0, 1 }

\* the number of packets that arrive in these runs
BoundLockArrivals == 2

\* what the handlers of these runs leave alone besides the decoder's fields
lockAuxVars == << ageVars, encVars, codecVars, of_fault, of_release_fault, allocated_encoding_symbol_table,
                  openfec_session, last_set >>

\* the properties of the decoder
propVars == << num_source_symbols, num_repair_symbols, num_encoding_symbols,
               max_source_block_age, sort_output >>

InitLock ==
    /\ DecInit({BoundSourceSymbols}, {BoundRepairSymbols}, {1}, BOOLEAN)
    /\ AgeIdle
    /\ EncIdle
    /\ CodecIdle
    /\ EnvIdle

\* the EOS flag of the pad of streaming thread t (a pad delivers EOS once
\* per session)
EosReceived(t) == IF t = "fecsource" THEN fecsource_eos ELSE fecrepair_eos

\* RS_LOCK_MUTEX at the start of handler op of thread t
RsLockMutex(t, op) ==
    /\ WildRunning
    /\ dec_state = "PAUSED"
    /\ thread_op[t] = "none"
    /\ rs_mutex = "none"
    /\ rs_mutex' = t
    /\ thread_op' = [ thread_op EXCEPT ![t] = op ]
    /\ UNCHANGED << decVars, ageVars, encVars, codecVars, of_fault, of_release_fault, dec_state,
                    allocated_encoding_symbol_table, openfec_session, last_set >>

\* RS_UNLOCK_MUTEX at the end of the handler of thread t
RsUnlockMutex(t) ==
    /\ rs_mutex' = IF rs_mutex = t THEN "none" ELSE rs_mutex
    /\ thread_op' = [ thread_op EXCEPT ![t] = "none" ]

\* gst_rs_fec_dec_fecsource_chain / gst_rs_fec_dec_fecrepair_chain of thread
\* t, from the EOS test to RS_UNLOCK_MUTEX
LockedChain(t, b, esi, refuse_at) ==
    /\ WildRunning
    /\ thread_op[t] = "chain"
    /\ arrivals < BoundLockArrivals
    /\ arrivals' = arrivals + 1
    /\ IF EosReceived(t)
       THEN DropAfterEos(IF t = "fecsource" THEN "fecsource_chain" ELSE "fecrepair_chain")
       ELSE ApplyInsert(gst_rs_fec_dec_insert_fec_packet(
                            EncPacket(b, esi, num_source_symbols), t = "fecsource",
                            refuse_at))
    /\ RsUnlockMutex(t)
    /\ UNCHANGED << propVars, fecsource_eos, fecrepair_eos, eos_pushed, dec_state,
                    lockAuxVars >>

\* GST_EVENT_EOS on the pad of thread t, from the assignment of the EOS
\* flag to RS_UNLOCK_MUTEX
LockedEos(t, refuse_at) ==
    /\ WildRunning
    /\ thread_op[t] = "eos"
    /\ IF t = "fecsource"
       THEN /\ fecsource_eos' = TRUE
            /\ gst_rs_fec_dec_push_eos("fecsource_eos", TRUE, fecrepair_eos, refuse_at)
            /\ UNCHANGED fecrepair_eos
       ELSE /\ fecrepair_eos' = TRUE
            /\ gst_rs_fec_dec_push_eos("fecrepair_eos", fecsource_eos, TRUE, refuse_at)
            /\ UNCHANGED fecsource_eos
    /\ RsUnlockMutex(t)
    /\ UNCHANGED << propVars, encoding_symbol_length, first_pruning,
                    most_recent_block_nr, seen_block_nrs, accepted_ids, arrivals,
                    processed_block_nrs, dec_state, lockAuxVars >>

\* GST_EVENT_FLUSH_STOP on the pad of thread t: gst_rs_fec_dec_flush, then
\* RS_UNLOCK_MUTEX
LockedFlushStop(t) ==
    /\ WildRunning
    /\ thread_op[t] = "flush_stop"
    /\ FlushedTable
    /\ last_op' = IdleReport("flush")
    /\ RsUnlockMutex(t)
    /\ UNCHANGED << propVars, encoding_symbol_length, most_recent_block_nr,
                    stream_started, arrivals, dec_state, lockAuxVars >>

\* GST_STATE_CHANGE_PAUSED_TO_READY on the application thread, after the
\* parent class has changed the state: gst_rs_fec_dec_flush is entered
\* without RS_LOCK_MUTEX
EnterPausedToReadyFlush ==
    /\ WildRunning
    /\ dec_state = "PAUSED"
    /\ thread_op["application"] = "none"
    /\ thread_op' = [ thread_op EXCEPT !["application"] = "paused_to_ready" ]
    /\ UNCHANGED << decVars, ageVars, encVars, codecVars, of_fault, of_release_fault, dec_state,
                    allocated_encoding_symbol_table, openfec_session, rs_mutex,
                    last_set >>

\* gst_rs_fec_dec_flush and stream_started = FALSE of the state change
PausedToReadyFlush ==
    /\ WildRunning
    /\ thread_op["application"] = "paused_to_ready"
    /\ dec_state' = "READY"
    /\ FlushedTable
    /\ stream_started' = FALSE
    /\ last_op' = IdleReport("paused_to_ready")
    /\ RsUnlockMutex("application")
    /\ UNCHANGED << propVars, encoding_symbol_length, most_recent_block_nr, arrivals,
                    lockAuxVars >>

\* GST_STATE_CHANGE_READY_TO_PAUSED on the application thread:
\* gst_rs_fec_dec_reset_states before the pads are activated
ReadyToPausedReset ==
    /\ WildRunning
    /\ thread_op["application"] = "none"
    /\ gst_rs_fec_dec_change_state_ready_to_paused

\* two threads are inside handlers that work on the block table
Overlapping ==
    \E t \in Threads, u \in Threads :
        t # u /\ thread_op[t] # "none" /\ thread_op[u] # "none"

\* two handlers at work on the hash table at once: the table is corrupted
\* or the process brought down (the other outcome is that each of them
\* runs to its end as if alone)
RaceFault ==
    /\ WildRunning
    /\ Overlapping
    /\ last_op' = [ IdleReport("race") EXCEPT !.outcome = "memory_fault" ]
    /\ UNCHANGED << propVars, encoding_symbol_length, source_block_table, first_pruning,
                    most_recent_block_nr, segment_started, stream_started, fecsource_eos,
                    fecrepair_eos, pushed, eos_pushed, seen_block_nrs, accepted_ids,
                    arrivals, processed_block_nrs, auxVars >>

NextLock ==
    \/ \E t \in StreamingThreads : RsLockMutex(t, "chain")
    \/ \E t \in StreamingThreads : ~EosReceived(t) /\ RsLockMutex(t, "eos")
    \/ \E t \in StreamingThreads : RsLockMutex(t, "flush_stop")
    \/ \E b \in LockBlockNrs, esi \in 0..(num_source_symbols - 1) :
           LockedChain("fecsource", b, esi, 0)
    \/ \E b \in LockBlockNrs, esi \in num_source_symbols..(num_encoding_symbols - 1) :
           LockedChain("fecrepair", b, esi, 0)
    \/ \E t \in StreamingThreads : LockedEos(t, 0)
    \/ \E t \in StreamingThreads : LockedFlushStop(t)
    \/ EnterPausedToReadyFlush
    \/ PausedToReadyFlush
    \/ ReadyToPausedReset
    \/ RaceFault

SpecLock == InitLock /\ [][NextLock]_vars


\* (c - ref) mod 2^24
(***************************************************************************)
(* Codec runs: the encoder frames a source packet and a repair packet for  *)
(* block numbers around the byte boundaries of the 24-bit field, ESIs over *)
(* the range of the 8-bit field and several k, and the decoder reads the   *)
(* payload ID back.                                                        *)
(***************************************************************************)
CodecBlockNrs == { 0, 1, 255, 256, 65535, 65536, 1193046, total_range - 1 }

CodecEsis == { 0, 1, 127, 254, 255 }

CodecNsrcs == { 1, 200, 255 }

\* the ADU of a source packet, the repair symbol of a repair packet
CodecBodies == { <<>>, << 7 >>, << 1, 2, 3, 4, 5, 6, 9 >> }

InitCodec ==
    /\ DecInit({BoundSourceSymbols}, {BoundRepairSymbols}, {1}, {TRUE})
    /\ AgeIdle
    /\ EncIdle
    /\ \E b \in CodecBlockNrs, e \in CodecEsis, k \in CodecNsrcs, body \in CodecBodies :
           codec_in = [ source_block_nr |-> b, esi |-> e, nsrc |-> k, body |-> body ]
    /\ codec_out = [ called |-> "none", packet |-> <<>>, id |-> NoId ]
    /\ EnvIdle

\* gst_rs_fec_enc_push_adu appends the payload ID to the ADU; the decoder's
\* source path reads it
CodecSourcePacket ==
    /\ LET pkt == codec_in.body \o
                  fec_payload_id(codec_in.source_block_nr, codec_in.esi, codec_in.nsrc)
       IN  codec_out' = [ called |-> "source", packet |-> pkt,
                          id |-> gst_rs_fec_dec_source_packet_read_payload_id(pkt) ]
    /\ UNCHANGED << codec_in, decVars, ageVars, encVars, envVars >>

\* the repair packet loop writes the payload ID in front of the repair
\* symbol; the decoder's repair path reads it
CodecRepairPacket ==
    /\ LET pkt == fec_payload_id(codec_in.source_block_nr, codec_in.esi, codec_in.nsrc)
                  \o codec_in.body
       IN  codec_out' = [ called |-> "repair", packet |-> pkt,
                          id |-> gst_rs_fec_dec_repair_packet_read_payload_id(pkt) ]
    /\ UNCHANGED << codec_in, decVars, ageVars, encVars, envVars >>

NextCodec == CodecSourcePacket \/ CodecRepairPacket

SpecCodec == InitCodec /\ [][NextCodec]_vars

AheadOf(c, ref) == (c - ref + total_range) % total_range

\* c lies in the newer window of ref
InNewerWindow(c, ref) == AheadOf(c, ref) \in 1..(newer_range - 1)

C9_IsRecentEnoughWindow ==
    age_out.called = "is_source_block_nr_recent_enough" =>
        (age_out.result <=>
            \/ AheadOf(age_in.reference_block_nr, age_in.candidate_block_nr) <= age_in.max_age - 1
            \/ InNewerWindow(age_in.candidate_block_nr, age_in.reference_block_nr))

(***************************************************************************)
(* Properties of decoder runs                                              *)
(***************************************************************************)
\* the last step was an insertion of a packet into the block table
Inserted == last_op.op = "insert"

\* downstream accepted every push made by the last handler
PushesAccepted ==
    \A i \in DOMAIN last_op.pushes : last_op.pushes[i].ret = "GST_FLOW_OK"

\* numeric order and circular order agree on the set S of block numbers
NonStraddling(S) ==
    \A x \in S, y \in S : (x - y < newer_range) /\ (y - x < newer_range)

\* (block_nr, esi) of push p comes strictly before that of push q
PushedBefore(p, q) ==
    \/ p.block_nr < q.block_nr
    \/ (p.block_nr = q.block_nr /\ p.esi < q.esi)

(***************************************************************************)
(* C1.  Sorted mode, block numbers that do not straddle the wrap point,    *)
(* no flush in between: the whole sequence of ADUs pushed downstream (all  *)
(* prune batches, then the final drain) is strictly ascending by           *)
(* (blockNr, ESI).                                                         *)
(***************************************************************************)
C1_SortedDeliveryAscending ==
    (sort_output /\ NonStraddling(seen_block_nrs)) =>
        \A i \in 1..(Len(pushed) - 1) : PushedBefore(pushed[i], pushed[i + 1])

\* a prune batch and the drain have delivered ADUs of two blocks
C1_Witness ==
    /\ sort_output
    /\ NonStraddling(seen_block_nrs)
    /\ eos_pushed > 0
    /\ Len(pushed) >= 3
    /\ \E i \in DOMAIN pushed, j \in DOMAIN pushed : pushed[i].block_nr # pushed[j].block_nr
    /\ \E i \in DOMAIN pushed : pushed[i] \notin { last_op.pushes[j] : j \in DOMAIN last_op.pushes }

(***************************************************************************)
(* C2.  In both delivery modes no ADU (blockNr, ESI) is pushed downstream  *)
(* more than once during a session (between flushes).  Stated for the      *)
(* pushes downstream accepted.                                             *)
(***************************************************************************)
C2_NoAduPushedTwice ==
    \A i \in DOMAIN pushed, j \in DOMAIN pushed :
        ( /\ i < j
          /\ pushed[i].ret = "GST_FLOW_OK"
          /\ pushed[j].ret = "GST_FLOW_OK" )
        => << pushed[i].block_nr, pushed[i].esi >> # << pushed[j].block_nr, pushed[j].esi >>

(***************************************************************************)
(* C3.  Inserting a packet whose (blockNr, ESI) was accepted earlier in    *)
(* the session leaves the block table unchanged and pushes no ADU.         *)
(***************************************************************************)
C3_DuplicateInsertIsNoOp ==
    [][ ( /\ arrivals' # arrivals
          /\ last_op'.op = "insert"
          /\ << last_op'.block_nr, last_op'.esi >> \in accepted_ids )
        => ( source_block_table' = source_block_table /\ pushed' = pushed ) ]_vars

\* the k original ADUs of the block of the last insertion are available:
\* sorted mode keeps them in the output slots of the completed block,
\* immediate mode has handed each of them to a push
AdusAvailable ==
    LET b == last_op.block_nr IN
    IF sort_output
    THEN /\ last_op.block_after_processing.is_complete
         /\ \A e \in 0..(num_source_symbols - 1) :
               last_op.block_after_processing.output_adu_table[e] = AduBuffer(AduOf(b, e))
    ELSE \A e \in 0..(num_source_symbols - 1) :
            \E i \in DOMAIN pushed :
               /\ pushed[i].block_nr = b
               /\ pushed[i].esi = e
               /\ pushed[i].adu = AduOf(b, e)

\* the last insertion accepted the symbol that brought its block to k symbols
KthSymbolAccepted ==
    /\ Inserted
    /\ last_op.outcome = "accepted"
    /\ last_op.num_source_packets + last_op.num_repair_packets >= num_source_symbols

C5_FirstPacketAccepted ==
    (Inserted /\ arrivals = 1 /\ PushesAccepted) =>
        /\ last_op.outcome = "accepted"
        /\ most_recent_block_nr = last_op.block_nr
        /\ ~first_pruning
        /\ last_op.batch = <<>>

(***************************************************************************)
(* C6.  A packet classified as not recent enough is discarded without      *)
(* touching any source block: the table holds the same keys and block      *)
(* contents afterwards, and nothing is pushed downstream.                  *)
(***************************************************************************)
C6_TooOldLeavesTable ==
    [][ ( /\ arrivals' # arrivals
          /\ last_op'.op = "insert"
          /\ last_op'.outcome = "too_old" )
        => ( source_block_table' = source_block_table /\ pushed' = pushed ) ]_vars

(***************************************************************************)
(* C7.  Sorted mode: blocks delivered in the same prune or drain batch     *)
(* are delivered in wrap-around age order, the circularly older block      *)
(* before the circularly newer one.                                        *)
(***************************************************************************)
C7_BatchFollowsCircularAge ==
    sort_output =>
        \A i \in DOMAIN last_op.pushes, j \in DOMAIN last_op.pushes :
            i < j => ~InNewerWindow(last_op.pushes[i].block_nr, last_op.pushes[j].block_nr)

\* the last insertion brought its block to k source packets and no repair packet
AllSourcePacketsIn ==
    /\ Inserted
    /\ last_op.outcome = "accepted"
    /\ last_op.is_source_packet
    /\ last_op.num_source_packets = num_source_symbols
    /\ last_op.num_repair_packets = 0

\* the block is complete, the collaborator was not invoked and the output
\* slots hold the k ADUs, each at its ESI
CompleteWithoutCollaborator ==
    /\ last_op.processed
    /\ ~last_op.collaborator
    /\ last_op.block_after_processing.is_complete
    /\ \A e \in 0..(num_source_symbols - 1) :
          last_op.block_after_processing.output_adu_table[e]
              = AduBuffer(AduOf(last_op.block_nr, e))

Accepted == Inserted /\ last_op.outcome = "accepted"

\* the block of the last insertion holds at least k symbols
ThresholdReached ==
    last_op.num_source_packets + last_op.num_repair_packets >= num_source_symbols

PrunePushes ==
    SubSeq(last_op.pushes, last_op.pushes_before_pruning + 1, Len(last_op.pushes))

(***************************************************************************)
(* C12.  In immediate mode pruning never pushes an ADU downstream: every   *)
(* block evicted by pruning is destroyed without downstream traffic.       *)
(***************************************************************************)
C12_ImmediatePruneSilent ==
    (~sort_output /\ Inserted) =>
        /\ PrunePushes = <<>>
        /\ last_op.batch = <<>>
        /\ \A b \in last_op.evicted : b \notin DOMAIN source_block_table

\* immediate mode: pruning has evicted a block that held a received packet
C12_Witness ==
    /\ ~sort_output
    /\ Inserted
    /\ last_op.pruning_ran
    /\ \E b \in last_op.evicted : \E e \in 0..(num_encoding_symbols - 1) : << b, e >> \in accepted_ids

(***************************************************************************)
(* C13.  In sorted mode no ADU is pushed at reception or at recovery       *)
(* time: an insertion pushes only ADUs of blocks its pruning step evicts,  *)
(* and every other push is made by the end-of-stream drain.                *)
(***************************************************************************)
C13_SortedPushesOnlyOnEviction ==
    sort_output =>
        /\ Inserted =>
              /\ last_op.pushes_before_pruning = 0
              /\ \A i \in DOMAIN last_op.pushes : last_op.pushes[i].block_nr \in last_op.evicted
        /\ (last_op.pushes # <<>>) => (Inserted \/ last_op.outcome = "drained")

\* sorted mode: an ADU was reconstructed and nothing was pushed
C13_Witness ==
    /\ sort_output
    /\ Inserted
    /\ last_op.processed
    /\ last_op.collaborator
    /\ DOMAIN last_op.recovered_adus # {}
    /\ last_op.pushes = <<>>
    /\ pushed = <<>>

(***************************************************************************)
(* C14.  In immediate mode the end-of-stream drain removes every block     *)
(* and destroys it silently: the drain pushes no ADU downstream.           *)
(***************************************************************************)
C14_ImmediateDrainSilent ==
    (~sort_output /\ last_op.outcome = "drained") =>
        (last_op.pushes = <<>> /\ source_block_table = << >>)

(***************************************************************************)
(* C15.  The decoder drains its table and pushes EOS downstream only once  *)
(* both sink pads have received EOS, or once the fecsource pad has when    *)
(* r = 0; an EOS event in any other state drains nothing and pushes no     *)
(* EOS.                                                                    *)
(***************************************************************************)
C15_EosIsJoin ==
    [][ ( /\ eos_pushed' > eos_pushed
             => ( /\ fecsource_eos'
                  /\ (fecrepair_eos' \/ num_repair_symbols = 0)
                  /\ last_op'.outcome = "drained"
                  /\ source_block_table' = << >> ) )
        /\ ( ( /\ last_op'.op \in { "fecsource_eos", "fecrepair_eos" }
               /\ (fecsource_eos' # fecsource_eos \/ fecrepair_eos' # fecrepair_eos)
               /\ ~(fecsource_eos' /\ (fecrepair_eos' \/ num_repair_symbols = 0)) )
             => ( /\ eos_pushed' = eos_pushed
                  /\ source_block_table' = source_block_table
                  /\ pushed' = pushed ) ) ]_vars

\* r > 0: the second of the two EOS events has drained a block
C15_Witness ==
    /\ num_repair_symbols > 0
    /\ fecsource_eos
    /\ fecrepair_eos
    /\ eos_pushed = 1
    /\ last_op.outcome = "drained"
    /\ last_op.pushes # <<>>

(***************************************************************************)
(* C16.  A flush resets the reference block number: the first packet       *)
(* inserted after a flush is accepted whatever the reference was before    *)
(* the flush, and its block number becomes the reference.  Stated for a    *)
(* reference that an earlier packet had moved away from its initial value, *)
(* and for insertions whose pushes downstream accepts.                     *)
(***************************************************************************)
C16_FlushResetsReference ==
    [][ ( /\ last_op.op = "flush"
          /\ most_recent_block_nr # 0
          /\ arrivals' # arrivals
          /\ last_op'.op = "insert"
          /\ \A i \in DOMAIN last_op'.pushes : last_op'.pushes[i].ret = "GST_FLOW_OK" )
        => ( /\ last_op'.outcome = "accepted"
             /\ most_recent_block_nr' = last_op'.block_nr ) ]_vars

\* the last step was a chain call that pushed the k-th source packet and all r
\* repair packets of a block
EncEmittedAll ==
    /\ enc_last_op'.op = "chain"
    /\ enc_last_op'.processed
    /\ Cardinality({ i \in DOMAIN enc_last_op'.pushes :
                        enc_last_op'.pushes[i].pad = "fecrepair" }) = num_repair_symbols

\* ... and downstream accepted every one of them
EncAcceptedAll ==
    /\ EncEmittedAll
    /\ \A i \in DOMAIN enc_last_op'.pushes : enc_last_op'.pushes[i].ret = "GST_FLOW_OK"

\* the counter went up by one, as a 32-bit unsigned number
EncCounterPlusOne ==
    /\ cur_source_block_nr'.lo = (cur_source_block_nr.lo + 1) % total_range
    /\ cur_source_block_nr'.hi = IF cur_source_block_nr.lo = total_range - 1
                                 THEN (cur_source_block_nr.hi + 1) % GuintHighRange
                                 ELSE cur_source_block_nr.hi

(***************************************************************************)
(* C17 (as stated).  The encoder's block counter never decreases, is never *)
(* reset by a flush, by EOS or by a state change, and goes up by exactly   *)
(* one after each block whose k source packets and r repair packets were   *)
(* all emitted.                                                            *)
(***************************************************************************)
C17_Original ==
    [][ /\ ~guint_less(cur_source_block_nr', cur_source_block_nr)
        /\ (enc_last_op'.op # "chain") => (cur_source_block_nr' = cur_source_block_nr)
        /\ EncEmittedAll => EncCounterPlusOne
        /\ (cur_source_block_nr' # cur_source_block_nr) => EncEmittedAll ]_vars

(***************************************************************************)
(* C17 (amended).  The block counter is never changed by a flush, by EOS   *)
(* or by a state change.  A chain call adds exactly one to it, modulo      *)
(* 2^32, when it pushed the last source packet and all r repair packets of *)
(* a block and downstream accepted every one of them; every other call     *)
(* leaves it as it was.                                                    *)
(***************************************************************************)
C17_BlockCounter ==
    [][ /\ EncAcceptedAll => EncCounterPlusOne
        /\ ~EncAcceptedAll => (cur_source_block_nr' = cur_source_block_nr) ]_vars

\* a block with two repair packets went out whole and the counter wrapped
\* from 2^32 - 1 to 0
C17_Witness ==
    /\ enc_last_op.op = "chain"
    /\ enc_last_op.processed
    /\ enc_last_op.ret = "GST_FLOW_OK"
    /\ num_repair_symbols = BoundRepairSymbols
    /\ Len(enc_last_op.pushes) = 1 + num_repair_symbols
    /\ cur_source_block_nr = [ hi |-> 0, lo |-> 0 ]
    /\ enc_last_op.pushes[1].payload_id[1] = 255

\* every slot of the encoder's adu_table is NULL
AduTableEmpty == \A e \in DOMAIN adu_table : adu_table[e] = EncNull

(***************************************************************************)
(* C18.  An encoder flush drops the ADUs collected so far and sets their   *)
(* count to 0, and every repair packet the encoder ever pushes belongs to  *)
(* a block for which k ADUs were collected since the last block end or     *)
(* flush.                                                                  *)
(***************************************************************************)
C18_NoPartialBlock ==
    /\ (enc_last_op.op \in { "flush_stop", "paused_to_ready" })
          => (cur_num_adus = 0 /\ AduTableEmpty)
    /\ \A i \in DOMAIN enc_pushed :
          (enc_pushed[i].pad = "fecrepair") =>
              /\ enc_pushed[i].collected = num_source_symbols
              /\ Len(enc_pushed[i].built_from) = num_source_symbols
              /\ \A j \in DOMAIN enc_pushed[i].built_from : enc_pushed[i].built_from[j] # 0

\* after a whole block with repair packets, a flush came in the middle of
\* the next block
C18_Witness ==
    /\ enc_last_op.op = "flush_stop"
    /\ enc_last_op.adus_before > 0
    /\ enc_last_op.adus_before < num_source_symbols
    /\ cur_num_adus = 0
    /\ \E i \in DOMAIN enc_pushed : enc_pushed[i].pad = "fecrepair"

(***************************************************************************)
(* C19.  An ADU of more than 65535 bytes is rejected with a stream error,  *)
(* no packet is pushed for it, and the block in progress (the collected    *)
(* ADUs and their count) is discarded.                                     *)
(***************************************************************************)
C19_OversizeDiscardsBlock ==
    ( /\ enc_last_op.op = "chain"
      /\ enc_last_op.adu.size > MaxAduSize
      /\ ~eos_received )
    => ( /\ enc_last_op.ret = "GST_FLOW_ERROR"
         /\ enc_last_op.pushes = <<>>
         /\ cur_num_adus = 0
         /\ AduTableEmpty )

\* the 6 bytes of the payload ID for the codec run's input
CodecIdBytes ==
    << codec_in.source_block_nr \div 65536,
       (codec_in.source_block_nr \div 256) % 256,
       codec_in.source_block_nr % 256,
       codec_in.esi,
       codec_in.nsrc \div 256,
       codec_in.nsrc % 256 >>

(***************************************************************************)
(* C20.  Payload-ID round trip: the decoder reads from the last 6 bytes of *)
(* a source packet, and from the first 6 bytes of a repair packet, the     *)
(* block number and ESI the encoder wrote; the ID is the block number as   *)
(* 24-bit big endian, then the ESI, then k; it follows the ADU in a source *)
(* packet and precedes the repair symbol in a repair packet.               *)
(***************************************************************************)
C20_PayloadIdRoundTrip ==
    LET pkt == codec_out.packet
        n   == Len(pkt)
        id  == [ source_block_nr |-> codec_in.source_block_nr, esi |-> codec_in.esi ]
    IN  /\ (codec_out.called = "source") =>
              /\ codec_out.id = id
              /\ n = Len(codec_in.body) + FEC_PAYLOAD_ID_LENGTH
              /\ SubSeq(pkt, n - FEC_PAYLOAD_ID_LENGTH + 1, n) = CodecIdBytes
              /\ SubSeq(pkt, 1, n - FEC_PAYLOAD_ID_LENGTH) = codec_in.body
        /\ (codec_out.called = "repair") =>
              /\ codec_out.id = id
              /\ n = Len(codec_in.body) + FEC_PAYLOAD_ID_LENGTH
              /\ SubSeq(pkt, 1, FEC_PAYLOAD_ID_LENGTH) = CodecIdBytes
              /\ SubSeq(pkt, FEC_PAYLOAD_ID_LENGTH + 1, n) = codec_in.body

\* the largest block number and ESI read back from a source packet that
\* carries an ADU
C20_Witness ==
    /\ codec_out.called = "source"
    /\ codec_in.source_block_nr = total_range - 1
    /\ codec_in.esi = 255
    /\ Len(codec_in.body) > FEC_PAYLOAD_ID_LENGTH
    /\ codec_out.id.source_block_nr = total_range - 1

\* the last handler ran a prune or drain batch
BatchRan == last_op.batch # <<>>

\* the positions in last_op.pushes of the pushes made for the batch
BatchPushes ==
    IF Inserted
    THEN (last_op.pushes_before_pruning + 1)..Len(last_op.pushes)
    ELSE DOMAIN last_op.pushes

(***************************************************************************)
(* C25.  When downstream refuses an ADU of a prune or drain batch, no      *)
(* further ADU of the batch is pushed, every block of the batch is removed *)
(* from the table all the same, and the prune / drain returns the refusal. *)
(***************************************************************************)
C25_RefusalAbandonsBatch ==
    BatchRan =>
        /\ \A b \in { last_op.batch[i] : i \in DOMAIN last_op.batch } :
               b \notin DOMAIN source_block_table
        /\ \A i \in BatchPushes :
               (last_op.pushes[i].ret # "GST_FLOW_OK") =>
                   /\ i = Len(last_op.pushes)
                   /\ last_op.ret = last_op.pushes[i].ret
        /\ (\A i \in BatchPushes : last_op.pushes[i].ret = "GST_FLOW_OK")
               => (last_op.ret = "GST_FLOW_OK")

\* a drain of two blocks that both hold a received ADU was refused at its
\* first push
C25_Witness ==
    /\ sort_output
    /\ last_op.outcome = "drained"
    /\ Len(last_op.batch) = 2
    /\ Len(last_op.pushes) = 1
    /\ last_op.pushes[1].ret # "GST_FLOW_OK"
    /\ last_op.ret # "GST_FLOW_OK"
    /\ \A i \in DOMAIN last_op.batch :
          \E e \in 0..(num_source_symbols - 1) : << last_op.batch[i], e >> \in accepted_ids

\* the block numbers held when the pruning step of the insertion of a packet
\* of block b starts: the block was fetched or created, and immediate mode
\* has removed it when it was processed
HeldAtPruning(b, processed) ==
    (DOMAIN source_block_table \cup {b})
        \ (IF processed /\ ~sort_output THEN {b} ELSE {})

(***************************************************************************)
(* C30.  The pruning step of an accepted insertion keyed on block number   *)
(* b, the reference being initialised: when b is the reference or is not   *)
(* newer than it, the reference and the set of held blocks are unchanged;  *)
(* when b is newer, the reference becomes b and exactly the held blocks    *)
(* that are not recent enough relative to b are evicted.  A block that     *)
(* stays and is not b is left as it was.                                   *)
(***************************************************************************)
C30_PruneByReference ==
    [][ ( /\ arrivals' = arrivals + 1
          /\ last_op'.op = "insert"
          /\ last_op'.outcome = "accepted"
          /\ last_op'.pruning_ran
          /\ ~first_pruning ) =>
        LET b    == last_op'.block_nr
            held == HeldAtPruning(b, last_op'.processed)
            kept == IF InNewerWindow(b, most_recent_block_nr)
                    THEN { x \in held :
                             gst_rs_fec_dec_is_source_block_nr_recent_enough(
                                 x, b, max_source_block_age) }
                    ELSE held
        IN  /\ most_recent_block_nr' =
                   IF InNewerWindow(b, most_recent_block_nr) THEN b ELSE most_recent_block_nr
            /\ DOMAIN source_block_table' = kept
            /\ last_op'.evicted = held \ kept
            /\ \A x \in kept \ {b} : source_block_table'[x] = source_block_table[x]
      ]_vars

\* pruning keyed on a newer block has evicted one block and kept another
C30_Witness ==
    /\ Inserted
    /\ last_op.outcome = "accepted"
    /\ last_op.pruning_ran
    /\ most_recent_block_nr = last_op.block_nr
    /\ last_op.evicted # {}
    /\ \E x \in DOMAIN source_block_table : x # last_op.block_nr

(***************************************************************************)
(* C29.  For each block number, block processing is triggered at most once *)
(* per decoding session, whatever packets of the block arrive afterwards,  *)
(* in both delivery modes.                                                 *)
(***************************************************************************)
C29_ProcessedOncePerBlock ==
    \A i \in DOMAIN processed_block_nrs, j \in DOMAIN processed_block_nrs :
        (processed_block_nrs[i] = processed_block_nrs[j]) => (i = j)

\* a push of an ADU of block b was attempted in this session
PushedBlock(b) == \E i \in DOMAIN pushed : pushed[i].block_nr = b

(***************************************************************************)
(* C23.  max-source-block-age 1, sorted mode, blocks 0, 1, 2, 3 receiving  *)
(* one packet each in that order: block 0 is still held in the table after *)
(* the packet of block 1 was inserted, nothing of it being pushed yet; it  *)
(* is pruned, and its received ADU pushed, when the packet of block 2      *)
(* arrives.                                                                *)
(***************************************************************************)
C23_BlockZeroPrunedAtBlockTwo ==
    /\ (arrivals = 2) => (0 \in DOMAIN source_block_table /\ ~PushedBlock(0))
    /\ (arrivals = 3) =>
          /\ 0 \notin DOMAIN source_block_table
          /\ last_op.evicted = {0}
          /\ (\E e \in 0..(num_source_symbols - 1) : << 0, e >> \in accepted_ids)
                 => PushedBlock(0)

\* the ESIs of the packets on the list pkts, read as source or repair payload IDs
RecordedEsis(pkts, source) ==
    { (IF source THEN gst_rs_fec_dec_source_packet_read_payload_id(pkts[i])
                 ELSE gst_rs_fec_dec_repair_packet_read_payload_id(pkts[i])).esi :
        i \in DOMAIN pkts }

(***************************************************************************)
(* C21.  Whatever bytes arrive, every packet recorded in a source block    *)
(* has an ESI below n = k + r, a recorded source packet an ESI in 0..k-1   *)
(* and a recorded repair packet an ESI in k..n-1; every index used on the  *)
(* k-slot output table of a block is below k, and the ESI assertions of    *)
(* block processing do not fail.                                           *)
(***************************************************************************)
C21_RecordedEsisInRange ==
    /\ \A b \in DOMAIN source_block_table :
          /\ RecordedEsis(source_block_table[b].source_packets, TRUE)
                 \subseteq 0..(num_source_symbols - 1)
          /\ RecordedEsis(source_block_table[b].repair_packets, FALSE)
                 \subseteq num_source_symbols..(num_encoding_symbols - 1)
    /\ ~last_op.out_of_range_index
    /\ ~last_op.assert_failed

(***************************************************************************)
(* C22.  With r = 0 a packet that arrives on the repair path is never      *)
(* recorded in a block, never counts toward the threshold of k symbols and *)
(* never triggers block processing or the collaborator.                    *)
(***************************************************************************)
C22_NoRepairConsumedWithoutRepairSymbols ==
    (num_repair_symbols = 0) =>
        /\ \A b \in DOMAIN source_block_table :
              /\ source_block_table[b].repair_packets = <<>>
              /\ source_block_table[b].num_repair_packets = 0
        /\ (Inserted /\ ~last_op.is_source_packet) =>
              /\ last_op.outcome # "accepted"
              /\ ~last_op.processed
              /\ ~last_op.collaborator

\* the collaborator reported a failure that is not fatal while the last
\* insertion processed its block
NonFatalFailure ==
    /\ Inserted
    /\ last_op.processed
    /\ last_op.of_status \in { "OF_STATUS_FAILURE", "OF_STATUS_ERROR" }

(***************************************************************************)
(* C24.  A failure of the collaborator that is not fatal, reported while a *)
(* block is processed, is not returned as an error to the caller of the    *)
(* insertion; the block keeps the ADUs that were received, with holes for  *)
(* the others, and is delivered with them later.                           *)
(***************************************************************************)
C24_NonFatalFailureNotPropagated ==
    NonFatalFailure =>
        /\ last_op.ret = "GST_FLOW_OK"
        /\ sort_output => last_op.block_nr \in DOMAIN source_block_table

\* the last set_property call was answered with an error or a warning
SetRejected(report) ==
    report.message \in { "GST_ELEMENT_ERROR", "GST_ELEMENT_WARNING" }

(***************************************************************************)
(* C26.  A set_property call that would make k + r exceed 255, or that     *)
(* asks for another k or r while a session is active, is rejected and      *)
(* leaves k, r and n = k + r as they were before the call, in the encoder  *)
(* and in the decoder alike.                                               *)
(***************************************************************************)
C26_RejectedChangeKeepsConfiguration ==
    [][ SetRejected(last_set') =>
            /\ num_source_symbols' = num_source_symbols
            /\ num_repair_symbols' = num_repair_symbols
            /\ num_encoding_symbols' = num_encoding_symbols
      ]_vars

(***************************************************************************)
(* C27.  The delivery mode is fixed for the life of a decoding session:    *)
(* while the decoder is PAUSED and has received a packet, sort_output does *)
(* not change.                                                             *)
(***************************************************************************)
C27_ModeFixedDuringSession ==
    [][ (dec_state = "PAUSED" /\ arrivals > 0 /\ seen_block_nrs # {})
            => (sort_output' = sort_output)
      ]_vars

(***************************************************************************)
(* C28.  Every execution of packet insertion, end-of-stream handling and   *)
(* flush on the block table runs with the decoder's mutex held, so that no *)
(* two of them, from either arrival path or from a flush, overlap.         *)
(***************************************************************************)
C28_TableHandlersHoldMutex ==
    /\ \A t \in Threads : (thread_op[t] # "none") => (rs_mutex = t)
    /\ ~Overlapping

\* the last handler discarded its packet before recording it
Discarded(report) ==
    report.op = "insert" /\ report.outcome \in { "too_old", "duplicate", "complete" }

(***************************************************************************)
(* C31.  most_recent_block_nr changes only in the pruning step of an       *)
(* accepted insertion, and then to the inserted packet's block number,     *)
(* when the pruning is the first one or that number is newer than the      *)
(* reference; a packet discarded as too old, as a duplicate or because     *)
(* its block is complete changes neither the reference nor first_pruning.  *)
(***************************************************************************)
C31_ReferenceMovesOnlyInPruning ==
    [][ /\ (most_recent_block_nr' # most_recent_block_nr)
           => /\ last_op'.op = "insert"
              /\ last_op'.outcome = "accepted"
              /\ last_op'.pruning_ran
              /\ most_recent_block_nr' = last_op'.block_nr
              /\ (first_pruning \/ InNewerWindow(last_op'.block_nr, most_recent_block_nr))
        /\ Discarded(last_op')
           => /\ most_recent_block_nr' = most_recent_block_nr
              /\ first_pruning' = first_pruning ]_vars

\* a pruning after the first one moved the reference to the newer block
\* number of the packet just recorded, and evicted a block
C31_Witness ==
    /\ last_op.op = "insert"
    /\ last_op.outcome = "accepted"
    /\ last_op.pruning_ran
    /\ last_op.evicted # {}
    /\ most_recent_block_nr = last_op.block_nr

\* the fields of the payload ID of a packet the encoder pushed
EncBlockNrOf(entry) == SubSeq(entry.payload_id, 1, 3)
EncEsiOf(entry) == entry.payload_id[4]
EncNsrcOf(entry) == entry.payload_id[5] * 256 + entry.payload_id[6]

\* the last call was a chain call whose ADU was taken (no EOS before it, not
\* more than 65535 bytes)
EncAduTaken ==
    /\ enc_last_op.op = "chain"
    /\ enc_last_op.ret # "GST_FLOW_EOS"
    /\ enc_last_op.adu.size <= MaxAduSize

\* entry i of the encoder's pushes is a repair packet that directly follows,
\* through repair packets only, the accepted source packet j
RepairFollows(i, j) ==
    /\ j < i
    /\ enc_pushed[j].pad = "fecsource"
    /\ enc_pushed[j].ret = "GST_FLOW_OK"
    /\ \A m \in (j + 1)..(i - 1) : enc_pushed[m].pad = "fecrepair"

(***************************************************************************)
(* C32.  Each ADU the encoder takes gets the number of ADUs collected in   *)
(* the current block as its ESI, and its source packet is pushed within    *)
(* the same call, before any repair packet of that call.  The source       *)
(* packets of a block carry the ESIs 0..k-1 in the order they are pushed,  *)
(* and the repair packets of a block are pushed after its k-th source      *)
(* packet and before any later source packet.                              *)
(***************************************************************************)
C32_SourcePacketsInEsiOrder ==
    /\ EncAduTaken
          => /\ Len(enc_last_op.pushes) >= 1
             /\ enc_last_op.pushes[1].pad = "fecsource"
             /\ enc_last_op.pushes[1].adu = enc_last_op.adu
             /\ EncEsiOf(enc_last_op.pushes[1]) = enc_last_op.adus_before
             /\ \A i \in 2..Len(enc_last_op.pushes) : enc_last_op.pushes[i].pad = "fecrepair"
    /\ \A i \in DOMAIN enc_pushed :
          (enc_pushed[i].pad = "fecsource")
              => /\ EncEsiOf(enc_pushed[i]) = enc_pushed[i].collected
                 /\ EncEsiOf(enc_pushed[i]) < num_source_symbols
    /\ \A i \in DOMAIN enc_pushed :
          (enc_pushed[i].pad = "fecrepair")
              => \E j \in DOMAIN enc_pushed :
                    /\ RepairFollows(i, j)
                    /\ EncEsiOf(enc_pushed[j]) = num_source_symbols - 1
                    /\ EncBlockNrOf(enc_pushed[j]) = EncBlockNrOf(enc_pushed[i])
                    \* the k source packets of the block, in ESI order
                    /\ \A e \in 0..(num_source_symbols - 1) :
                          \E m \in 1..j :
                             /\ enc_pushed[m].pad = "fecsource"
                             /\ enc_pushed[m].ret = "GST_FLOW_OK"
                             /\ enc_pushed[m].adu.id = enc_pushed[i].built_from[e + 1]
                             /\ EncEsiOf(enc_pushed[m]) = e
                             /\ EncBlockNrOf(enc_pushed[m]) = EncBlockNrOf(enc_pushed[i])
                             /\ m = j - (num_source_symbols - 1 - e)
                                   \/ \E x \in (m + 1)..j : enc_pushed[x].ret # "GST_FLOW_OK"

\* a chain call pushed the second source packet of a block (ESI 1) and then
\* both repair packets
C32_Witness ==
    /\ EncAduTaken
    /\ num_source_symbols = BoundSourceSymbols
    /\ num_repair_symbols = BoundRepairSymbols
    /\ Len(enc_last_op.pushes) = 1 + BoundRepairSymbols
    /\ EncEsiOf(enc_last_op.pushes[1]) = BoundSourceSymbols - 1
    /\ enc_last_op.pushes[Len(enc_last_op.pushes)].pad = "fecrepair"

\* the sizes of the ADUs a repair packet was built from, as the encoder
\* pushed them in source packets
BuiltFromSizes(entry) ==
    { enc_pushed[m].adu.size :
        m \in { x \in DOMAIN enc_pushed :
                  /\ enc_pushed[x].pad = "fecsource"
                  /\ \E e \in DOMAIN entry.built_from :
                        entry.built_from[e] = enc_pushed[x].adu.id } }

\* the last call completed a block: it was processed and every push succeeded
EncBlockCompleted ==
    /\ enc_last_op.op = "chain"
    /\ enc_last_op.processed
    /\ enc_last_op.ret = "GST_FLOW_OK"

(***************************************************************************)
(* C33.  For every block the encoder completes, exactly r repair packets   *)
(* are pushed (none when r = 0), with the ESIs k, k+1, ..., k+r-1 in this  *)
(* order; each carries the block's number and k in its payload ID,         *)
(* followed by a repair symbol of 3 + (the largest ADU length among the k  *)
(* ADUs of that block) bytes, whatever the ADU lengths of earlier or       *)
(* abandoned blocks were.                                                  *)
(***************************************************************************)
C33_RepairPacketsOfBlock ==
    /\ EncBlockCompleted
          => /\ Len(enc_last_op.pushes) = 1 + num_repair_symbols
             /\ \A i \in 2..Len(enc_last_op.pushes) :
                   /\ enc_last_op.pushes[i].pad = "fecrepair"
                   /\ EncEsiOf(enc_last_op.pushes[i]) = num_source_symbols + (i - 2)
                   /\ EncBlockNrOf(enc_last_op.pushes[i]) = EncBlockNrOf(enc_last_op.pushes[1])
    /\ \A i \in DOMAIN enc_pushed :
          (enc_pushed[i].pad = "fecrepair")
              => /\ EncNsrcOf(enc_pushed[i]) = num_source_symbols
                 /\ EncEsiOf(enc_pushed[i]) \in
                        num_source_symbols..(num_source_symbols + num_repair_symbols - 1)
                 /\ Cardinality(BuiltFromSizes(enc_pushed[i])) >= 1
                 /\ \E longest \in BuiltFromSizes(enc_pushed[i]) :
                       /\ \A size \in BuiltFromSizes(enc_pushed[i]) : size <= longest
                       /\ enc_pushed[i].size - FEC_PAYLOAD_ID_LENGTH = 3 + longest

\* a block of one-byte ADUs was completed with both repair packets after an
\* ADU of 65535 bytes had gone into an earlier block
C33_Witness ==
    /\ EncBlockCompleted
    /\ num_repair_symbols = BoundRepairSymbols
    /\ Len(enc_last_op.pushes) = 1 + BoundRepairSymbols
    /\ enc_last_op.pushes[Len(enc_last_op.pushes)].size = FEC_PAYLOAD_ID_LENGTH + 3 + 1
    /\ \E m \in DOMAIN enc_pushed :
          /\ enc_pushed[m].pad = "fecsource"
          /\ enc_pushed[m].ret = "GST_FLOW_OK"
          /\ enc_pushed[m].adu.size = MaxAduSize

\* the step is a chain call on the fecsource / fecrepair pad
SourceChainStep ==
    /\ arrivals' # arrivals
    /\ \/ last_op'.op = "fecsource_chain"
       \/ last_op'.op = "insert" /\ last_op'.is_source_packet

RepairChainStep ==
    /\ arrivals' # arrivals
    /\ \/ last_op'.op = "fecrepair_chain"
       \/ last_op'.op = "insert" /\ ~last_op'.is_source_packet

\* the chain call dropped its buffer: GST_FLOW_EOS, nothing else changed
DroppedWithEos ==
    /\ last_op'.op \in { "fecsource_chain", "fecrepair_chain" }
    /\ last_op'.ret = "GST_FLOW_EOS"
    /\ UNCHANGED << source_block_table, pushed, most_recent_block_nr, first_pruning,
                    fecsource_eos, fecrepair_eos, eos_pushed >>

(***************************************************************************)
(* C34.  With r > 0, after EOS on the fecsource pad only, a source packet  *)
(* is dropped with GST_FLOW_EOS and the block table stays as it is, while  *)
(* a repair packet is still handed to the insertion (and can complete a    *)
(* block and recover ADUs) until the fecrepair pad signals EOS too; the    *)
(* same holds with the two pads exchanged.                                 *)
(***************************************************************************)
C34_EosPerPath ==
    [][ (num_repair_symbols > 0)
        => /\ (fecsource_eos /\ SourceChainStep) => DroppedWithEos
           /\ (fecrepair_eos /\ RepairChainStep) => DroppedWithEos
           /\ (~fecrepair_eos /\ RepairChainStep) => last_op'.op = "insert"
           /\ (~fecsource_eos /\ SourceChainStep) => last_op'.op = "insert" ]_vars

\* after EOS on the fecsource pad only, a repair packet completed a block and
\* an ADU was recovered
C34_Witness ==
    /\ fecsource_eos
    /\ ~fecrepair_eos
    /\ num_repair_symbols > 0
    /\ last_op.op = "insert"
    /\ ~last_op.is_source_packet
    /\ last_op.processed
    /\ last_op.collaborator
    /\ DOMAIN last_op.recovered_adus # {}

(***************************************************************************)
(* C35.  In both delivery modes, a stream-start event and a segment event  *)
(* have been pushed downstream before the first ADU of a session is        *)
(* pushed, and a segment event again before the first ADU after a flush:   *)
(* whenever an ADU push was made since the last flush, stream_started and  *)
(* segment_started are set.                                                *)
(***************************************************************************)
C35_EventsBeforeFirstAdu ==
    (pushed # <<>>) => (stream_started /\ segment_started)

(***************************************************************************)
(* C36.  Within one decoding session (between resets) the decoder drains   *)
(* its table and pushes EOS downstream at most once, in whatever order the *)
(* fecsource pad and the fecrepair pad signal EOS and for every r >= 0.    *)
(***************************************************************************)
C36_EosPushedAtMostOnce ==
    eos_pushed <= 1

(***************************************************************************)
(* C37.  Over a whole encoder run, with mid-block flushes, EOS followed by *)
(* a reset, failed reconfigurations and downstream refusals of source or   *)
(* repair packets, no two source packets that carry different ADUs are     *)
(* pushed with the same (block number, ESI) pair.                          *)
(***************************************************************************)
C37_SourceIdsUnique ==
    \A i, j \in DOMAIN enc_pushed :
        ( /\ enc_pushed[i].pad = "fecsource"
          /\ enc_pushed[j].pad = "fecsource"
          /\ EncBlockNrOf(enc_pushed[i]) = EncBlockNrOf(enc_pushed[j])
          /\ EncEsiOf(enc_pushed[i]) = EncEsiOf(enc_pushed[j]) )
        => enc_pushed[i].adu = enc_pushed[j].adu

\* the pushes of ADU (b, e) made on srcpad this session
AduPushes(b, e) ==
    { i \in DOMAIN pushed : pushed[i].block_nr = b /\ pushed[i].esi = e }

\* downstream accepted every push of this session
DownstreamAccepts == \A i \in DOMAIN pushed : pushed[i].ret = "GST_FLOW_OK"

\* ADU (b, e) was extracted from an accepted source packet, or recovered when
\* block b was processed
AduObtained(b, e) ==
    \/ << b, e >> \in accepted_ids
    \/ \E i \in DOMAIN processed_block_nrs : processed_block_nrs[i] = b

ProcessedWithoutRepair ==
    /\ last_op.op = "insert"
    /\ last_op.processed
    /\ last_op.num_repair_packets = 0

(***************************************************************************)
(* C39.  Whenever block processing is entered for a block with no recorded *)
(* repair packet, the block holds exactly k source packets, so the         *)
(* g_assert of the no-repair branch holds: for every arrival sequence of   *)
(* packets with valid ESIs, in both delivery modes, also after insertions  *)
(* that ended early on a refused push.                                     *)
(***************************************************************************)
C39_NoRepairBranchHoldsKSourcePackets ==
    ProcessedWithoutRepair
        => /\ last_op.num_source_packets = num_source_symbols
           /\ ~last_op.assert_failed
           /\ ~last_op.collaborator

\* immediate mode: a block was processed without repair packets after
\* downstream had refused the push of an earlier insertion
C39_Witness ==
    /\ ProcessedWithoutRepair
    /\ ~sort_output
    /\ last_op.num_source_packets = num_source_symbols
    /\ \E i \in DOMAIN pushed :
          /\ pushed[i].ret # "GST_FLOW_OK"
          /\ i <= Len(pushed) - Len(last_op.pushes)

(***************************************************************************)
(* C40.  Block processing returns an error whenever one of the decoding    *)
(* calls of OpenFEC (set available symbols, finish decoding, get the       *)
(* recovered symbols) failed, whether the release of the session           *)
(* afterwards succeeds or fails: a failed release never turns an earlier   *)
(* error into a success.                                                   *)
(***************************************************************************)
C40_DecodingFailureIsAnError ==
    ( /\ last_op.op = "insert"
      /\ last_op.processed
      /\ last_op.of_status # "OF_STATUS_OK" )
    => last_op.process_ret = "GST_FLOW_ERROR"

====
